---- MODULE Spec2Model ----
(***************************************************************************)
(* Model of the memory_libmap mapping engine                               *)
(* (passes/memory/memory_libmap.cc): one abstract memory and one parsed    *)
(* library go through the candidate pipeline of MemMapping::MemMapping and *)
(* the selection of MemoryLibMapPass::execute.                             *)
(*                                                                         *)
(* Conventions.  C++ vectors are sequences, so indices are 1-based here    *)
(* and the "-1 = none" of rd_port / wr_port is 0.  Bit masks               *)
(* (hard_wide_mask, emu_wide_mask) are sets of bit numbers.  Signals       *)
(* (SigBit) are strings: "0", "1", "x" are the constants State::S0, S1,    *)
(* Sx, any other string is a wire.  Costs (double in the code) are kept in *)
(* units of 1/CostScale.                                                   *)
(***************************************************************************)
EXTENDS Integers, Sequences, FiniteSets, TLC

VARIABLES
    lib,          \* the parsed Library
    mem,          \* the abstract memory (Mem) with its attributes
    pc,           \* the next stage of the pipeline
    cfgs,         \* MemMapping::cfgs
    prev_cfgs,    \* cfgs on entry of the stage that ran last
    kind,         \* MemMapping::kind
    style,        \* MemMapping::style
    logic_ok,     \* MemMapping::logic_ok
    logic_cost,   \* MemMapping::logic_cost
    error,        \* the log_error / failed assertion that ended the run, or "none"
    emitted,      \* <<cfg>> handed to emit, or << >>
    cells,        \* <<netlist>>: the cells and port slots emit created, or << >>
    mem_removed   \* mem.remove() was called

vars == <<lib, mem, pc, cfgs, prev_cfgs, kind, style, logic_ok, logic_cost,
          error, emitted, cells, mem_removed>>

-----------------------------------------------------------------------------
(* Bounds of the explored inputs. *)

MaxWidth == 2
MaxSize == 3
MaxDimsCost == 3

(* Program constants: FACTOR_MUX and FACTOR_DEMUX are 1/CostScale, and     *)
(* FACTOR_EMU is in whole units.                                           *)
CostScale == 2
FACTOR_EMU == 2

FACTOR_MUX == CostScale \div 2
FACTOR_DEMUX == CostScale \div 2

-----------------------------------------------------------------------------
(* Generic helpers on sequences. *)

Range(s) == { s[i] : i \in DOMAIN s }

FlatMap(F(_), s) ==
    LET g[i \in 0..Len(s)] == IF i = 0 THEN << >> ELSE g[i-1] \o F(s[i])
    IN  g[Len(s)]

Filter(P(_), s) == SelectSeq(s, P)

(* for (i = 1..n) acc = Step(acc, i) *)
Iterate(Step(_, _), init, n) ==
    LET g[i \in 0..n] == IF i = 0 THEN init ELSE Step(g[i-1], i)
    IN  g[n]

Count(P(_), s) == Cardinality({ i \in DOMAIN s : P(s[i]) })

Max(a, b) == IF a > b THEN a ELSE b
Min(a, b) == IF a < b THEN a ELSE b

Pow2(n) == 2 ^ n

-----------------------------------------------------------------------------
(* Options and capabilities. *)

NoOpts == << >>

Capability(val, opts, portopts) == [val |-> val, opts |-> opts, portopts |-> portopts]

Cap(val) == Capability(val, NoOpts, NoOpts)

opts_conflict(a, b) ==
    \E k \in DOMAIN a : k \in DOMAIN b /\ a[k] # b[k]

opts_applied(dst, src) ==
    \A k \in DOMAIN src : k \in DOMAIN dst /\ dst[k] = src[k]

(* A commit that goes through even when a key is taken with another value. *)
apply_opts_force(dst, src) ==
    [ok   |-> TRUE,
     opts |-> [k \in DOMAIN dst \cup DOMAIN src |->
                 IF k \in DOMAIN dst THEN dst[k] ELSE src[k]]]

(* apply_opts returns whether the commit succeeded and the resulting map;  *)
(* on failure the map holds the keys inserted so far (every caller works   *)
(* on a copy and drops it).                                                *)
apply_opts(dst, src) ==
    [ok   |-> ~opts_conflict(src, dst),
     opts |-> [k \in DOMAIN dst \cup DOMAIN src |->
                 IF k \in DOMAIN dst THEN dst[k] ELSE src[k]]]

(* The history of a candidate: the capabilities committed to it so far,    *)
(* each with the port whose portopts took its port options (side "wr" or   *)
(* "rd" and the index pidx; side "none" for a capability of the RAM) and,  *)
(* in name, the clock name of a clock capability or the kind of an rden    *)
(* capability.  The code keeps no such list:                               *)
(* the field caps only records what the apply_* calls were given, and no   *)
(* stage reads it.                                                         *)
bind(cfg, what, cap, side, pidx, name) ==
    [cfg EXCEPT !.caps = Append(@, [what |-> what, opts |-> cap.opts,
                                    portopts |-> cap.portopts, side |-> side,
                                    pidx |-> pidx, name |-> name])]

(* The same for a capability of read port pidx: a shared read port keeps   *)
(* its port options in the write port it shares.                           *)
bind_rd(cfg, what, cap, pidx) ==
    IF cfg.rd_ports[pidx].wr_port # 0
    THEN bind(cfg, what, cap, "wr", cfg.rd_ports[pidx].wr_port, "")
    ELSE bind(cfg, what, cap, "rd", pidx, "")

apply_wrport_opts(cfg, pidx, cap) ==
    LET a == apply_opts(cfg.opts, cap.opts)
        b == apply_opts(cfg.wr_ports[pidx].portopts, cap.portopts)
    IN  [ok  |-> a.ok /\ b.ok,
         cfg |-> [cfg EXCEPT !.opts = a.opts, !.wr_ports[pidx].portopts = b.opts]]

apply_rdport_opts(cfg, pidx, cap) ==
    IF cfg.rd_ports[pidx].wr_port # 0
    THEN apply_wrport_opts(cfg, cfg.rd_ports[pidx].wr_port, cap)
    ELSE LET a == apply_opts(cfg.opts, cap.opts)
             b == apply_opts(cfg.rd_ports[pidx].portopts, cap.portopts)
         IN  [ok  |-> a.ok /\ b.ok,
              cfg |-> [cfg EXCEPT !.opts = a.opts, !.rd_ports[pidx].portopts = b.opts]]

wrport_opts_applied(cfg, pidx, cap) ==
    /\ opts_applied(cfg.opts, cap.opts)
    /\ opts_applied(cfg.wr_ports[pidx].portopts, cap.portopts)

rdport_opts_applied(cfg, pidx, cap) ==
    IF cfg.rd_ports[pidx].wr_port # 0
    THEN wrport_opts_applied(cfg, cfg.rd_ports[pidx].wr_port, cap)
    ELSE /\ opts_applied(cfg.opts, cap.opts)
         /\ opts_applied(cfg.rd_ports[pidx].portopts, cap.portopts)

(* A binding that lets a later port take over a named clock. *)
apply_clock_rebind(cfg, def, clk, clk_polarity) ==
    IF def.name = ""
    THEN [ok |-> TRUE, cfg |-> cfg]
    ELSE IF def.kind = "Anyedge"
    THEN [ok  |-> TRUE,
          cfg |-> [cfg EXCEPT !.clocks_anyedge =
                      (def.name :> <<clk, clk_polarity>>) @@ @]]
    ELSE [ok  |-> TRUE,
          cfg |-> [cfg EXCEPT !.clocks_pnedge =
                      (def.name :> <<clk, (clk_polarity # (def.kind = "Posedge"))>>) @@ @]]

(* apply_clock: bind a named clock, or check the existing binding. *)
apply_clock(cfg, def, clk, clk_polarity) ==
    IF def.name = ""
    THEN [ok |-> TRUE, cfg |-> cfg]
    ELSE IF def.kind = "Anyedge"
    THEN IF def.name \notin DOMAIN cfg.clocks_anyedge
         THEN [ok  |-> TRUE,
               cfg |-> [cfg EXCEPT !.clocks_anyedge =
                           (def.name :> <<clk, clk_polarity>>) @@ @]]
         ELSE [ok  |-> cfg.clocks_anyedge[def.name] = <<clk, clk_polarity>>,
               cfg |-> cfg]
    ELSE LET flip == (clk_polarity # (def.kind = "Posedge"))
         IN  IF def.name \notin DOMAIN cfg.clocks_pnedge
             THEN [ok  |-> TRUE,
                   cfg |-> [cfg EXCEPT !.clocks_pnedge =
                               (def.name :> <<clk, flip>>) @@ @]]
             ELSE [ok  |-> cfg.clocks_pnedge[def.name] = <<clk, flip>>,
                   cfg |-> cfg]

(* apply_rstval on read port pidx of cfg; val is a sequence of bits. *)
apply_rstval(cfg, pidx, def, val) ==
    IF def.val_kind = "None"
    THEN [ok |-> FALSE, cfg |-> cfg]
    ELSE IF def.val_kind = "Zero"
    THEN [ok |-> \A i \in DOMAIN val : val[i] # "1", cfg |-> cfg]
    ELSE IF def.name \notin DOMAIN cfg.rd_ports[pidx].resetvals
    THEN [ok  |-> TRUE,
          cfg |-> [cfg EXCEPT !.rd_ports[pidx].resetvals = (def.name :> val) @@ @]]
    ELSE [ok |-> cfg.rd_ports[pidx].resetvals[def.name] = val, cfg |-> cfg]

is_fully_undef(val) == \A i \in DOMAIN val : val[i] = "x"

-----------------------------------------------------------------------------
(* The library model (struct RamDef, PortGroupDef, ...). *)

ClockDef(knd, name) == [kind |-> knd, name |-> name]

WidthDef(tied, wr_widths, rd_widths) ==
    [tied |-> tied, wr_widths |-> wr_widths, rd_widths |-> rd_widths]

ResetValDef(knd, val_kind, name) == [kind |-> knd, val_kind |-> val_kind, name |-> name]

WrTransDef(target_kind, target_name, knd) ==
    [target_kind |-> target_kind, target_name |-> target_name, kind |-> knd]

MemoryDimsDef(abits, dbits, tied, resource_name, cost) ==
    [abits |-> abits, dbits |-> dbits, tied |-> tied,
     resource_name |-> resource_name, resource_count |-> 1, cost |-> cost]

(* A port group as the parser leaves it before the defaults are added. *)
PortGroupDef(knd, names) ==
    [kind |-> knd, names |-> names, clock |-> << >>, width |-> << >>,
     rden |-> << >>, rdrstval |-> << >>, rdsrstmode |-> << >>,
     wrprio |-> << >>, wrtrans |-> << >>]

(* Parser::parse_ram_item, "Add defaults for some options". *)
port_defaults(port) ==
    LET p1 == IF port.kind # "Ar" /\ port.clock = << >>
              THEN [port EXCEPT !.clock = <<Cap(ClockDef("Anyedge", ""))>>]
              ELSE port
    IN  IF p1.width = << >>
        THEN [p1 EXCEPT !.width = <<Cap(WidthDef(TRUE, << >>, << >>))>>]
        ELSE p1

RamDef(id, knd, ports, dims) ==
    [id |-> id, kind |-> knd, prune_rom |-> FALSE,
     ports |-> [i \in DOMAIN ports |-> Cap(port_defaults(ports[i]))],
     dims |-> dims, byte |-> << >>, init |-> << >>, style |-> << >>]

PassOptions(d, b, h) ==
    [no_auto_distributed |-> d, no_auto_block |-> b, no_auto_huge |-> h]

Library(ram_defs, opts) == [ram_defs |-> ram_defs, opts |-> opts]

NoOptions == PassOptions(FALSE, FALSE, FALSE)

-----------------------------------------------------------------------------
(* The checks of the parser that the pipeline relies on. *)

(* parse_port_item: which capabilities a port kind may carry. *)
port_caps_ok(port) ==
    /\ port.names # << >>
    /\ (port.kind = "Ar" => port.clock = << >>)
    /\ (port.kind # "Ar" => port.clock # << >>)
    /\ port.width # << >>
    /\ (port.kind \in {"Sr", "Srsw"} => port.rden # << >>)
    /\ (port.kind \notin {"Sr", "Srsw"} =>
            port.rden = << >> /\ port.rdrstval = << >> /\ port.rdsrstmode = << >>)
    /\ (port.kind \in {"Ar", "Sr"} => port.wrprio = << >> /\ port.wrtrans = << >>)
    /\ \A i \in DOMAIN port.rden :
            port.rden[i].val \in {"WriteImplies", "WriteExcludes"} => port.kind = "Srsw"
    /\ \A i \in DOMAIN port.wrtrans :
            port.wrtrans[i].val.target_kind = "Self" => port.kind = "Srsw"
    /\ \A i \in DOMAIN port.width :
            (port.width[i].val.rd_widths # << >> \/
             (~port.width[i].val.tied)) => port.kind \in {"Srsw", "Arsw"}

(* parse_ram_item, "abits": the dbits progression. *)
dbits_ok(dims) ==
    /\ dims.dbits # << >>
    /\ \A i \in DOMAIN dims.dbits :
          /\ dims.dbits[i] > 0
          /\ (i > 1 => dims.dbits[i] >= 2 * dims.dbits[i-1])
    /\ Len(dims.dbits) - 1 <= dims.abits

validate_widthdef(dbits, widths) ==
    \/ widths = << >>
    \/ \E i \in DOMAIN dbits :
          /\ dbits[i] = widths[1]
          /\ \A i2 \in 1..(i-1) : dbits[i2] # widths[1]
          /\ \A j \in DOMAIN widths :
                i + j - 1 <= Len(dbits) /\ dbits[i + j - 1] = widths[j]

validate_widths(ram) ==
    \A d \in DOMAIN ram.dims :
        LET ddef == ram.dims[d] IN
        /\ \A b \in DOMAIN ram.byte :
              opts_conflict(ddef.opts, ram.byte[b].opts) \/
              LET byte == ram.byte[b].val IN
              \/ ddef.val.dbits[1] % byte = 0
              \/ byte % ddef.val.dbits[Len(ddef.val.dbits)] = 0
              \/ \E x \in DOMAIN ddef.val.dbits : ddef.val.dbits[x] = byte
        /\ \A p \in DOMAIN ram.ports :
              opts_conflict(ddef.opts, ram.ports[p].opts) \/
              \A w \in DOMAIN ram.ports[p].val.width :
                  LET wdef == ram.ports[p].val.width[w] IN
                  opts_conflict(ddef.opts, wdef.opts) \/
                  /\ ~(ddef.val.tied /\ wdef.val.wr_widths # << >>)
                  /\ validate_widthdef(ddef.val.dbits, wdef.val.wr_widths)
                  /\ validate_widthdef(ddef.val.dbits, wdef.val.rd_widths)

(* The names of the named clocks of the given polarity classes. *)
clock_names(ram, knds) ==
    UNION { { ram.ports[p].val.clock[c].val.name :
                c \in { c2 \in DOMAIN ram.ports[p].val.clock :
                          /\ ram.ports[p].val.clock[c2].val.name # ""
                          /\ ram.ports[p].val.clock[c2].val.kind \in knds } } :
            p \in DOMAIN ram.ports }

(* parse_top_item, "ram": what an accepted RamDef satisfies. *)
ram_ok(ram) ==
    /\ ram.kind \in {"Distributed", "Block", "Huge"}
    /\ ram.dims # << >>
    /\ ram.ports # << >>
    /\ \A p \in DOMAIN ram.ports : port_caps_ok(ram.ports[p].val)
    /\ \A d \in DOMAIN ram.dims : dbits_ok(ram.dims[d].val)
    /\ \A b \in DOMAIN ram.byte : ram.byte[b].val > 0
    /\ clock_names(ram, {"Anyedge"}) \cap clock_names(ram, {"Posedge", "Negedge"}) = {}
    /\ validate_widths(ram)

library_ok(l) == \A i \in DOMAIN l.ram_defs : ram_ok(l.ram_defs[i])

-----------------------------------------------------------------------------
(* The abstract memory (kernel Mem, as far as the pipeline reads it). *)

MemWrPort(clk_enable, clk, clk_polarity, en, addr, wide_log2, priority_mask) ==
    [clk_enable |-> clk_enable, clk |-> clk, clk_polarity |-> clk_polarity,
     en |-> en, addr |-> addr, wide_log2 |-> wide_log2,
     priority_mask |-> priority_mask]

(* The attribute names determine_style scans, in its order. *)
StyleAttrs == <<"ram_block", "rom_block", "ram_style", "rom_style",
                "ramstyle", "romstyle", "syn_ramstyle", "syn_romstyle">>

(* has_nonx / has_one of handle_init. *)
init_has_nonx(m) == \E i \in DOMAIN m.inits : ~is_fully_undef(m.inits[i])

init_has_one(m) ==
    \E i \in DOMAIN m.inits :
        ~is_fully_undef(m.inits[i]) /\ \E b \in DOMAIN m.inits[i] : m.inits[i][b] = "1"

-----------------------------------------------------------------------------
(* struct MemConfig, WrPortConfig, RdPortConfig.  Fields the constructors  *)
(* leave unset hold 0 / << >> / {} until the stage that writes them.       *)

NewMemConfig(i) ==
    [ram_def |-> i, opts |-> NoOpts, wr_ports |-> << >>, rd_ports |-> << >>,
     clocks_anyedge |-> << >>, clocks_pnedge |-> << >>, emu_read_first |-> FALSE,
     dims_def |-> 0, byte |-> 0, base_width_log2 |-> 0, unit_width_log2 |-> 0,
     swizzle |-> << >>, hard_wide_mask |-> {}, emu_wide_mask |-> {},
     repl_d |-> 0, repl_port |-> 0, score_emu |-> 0, score_mux |-> 0,
     score_demux |-> 0, cost |-> 0, caps |-> << >>]

NewWrPortConfig(port_def) ==
    [rd_port |-> 0, port_def |-> port_def, portopts |-> NoOpts, emu_prio |-> << >>,
     clkpol_kind |-> "unset", width_def |-> 0]

NewRdPortConfig(wr_port, port_def) ==
    [wr_port |-> wr_port, port_def |-> port_def, portopts |-> NoOpts,
     resetvals |-> << >>, emu_sync |-> FALSE, emu_en |-> FALSE, emu_arst |-> FALSE,
     emu_srst |-> FALSE, emu_init |-> FALSE, emu_srst_en_prio |-> FALSE,
     emit_en |-> FALSE, emu_trans |-> << >>, clkpol_kind |-> "unset", width_def |-> 0]

RamOf(cfg) == lib.ram_defs[cfg.ram_def]

-----------------------------------------------------------------------------
(* MemMapping::determine_style: [kind, style]. *)

(* An attribute value is a string; the integer constant 1 is "1int". *)
style_of_value(val) ==
    IF val = "1int" THEN [kind |-> "NotLogic", style |-> ""]
    ELSE IF val = "auto" THEN [kind |-> "Auto", style |-> ""]
    ELSE IF val \in {"logic", "registers"} THEN [kind |-> "Logic", style |-> ""]
    ELSE IF val = "distributed" THEN [kind |-> "Distributed", style |-> ""]
    ELSE IF val \in {"block", "block_ram", "ebr"} THEN [kind |-> "Block", style |-> ""]
    ELSE IF val \in {"huge", "ultra"} THEN [kind |-> "Huge", style |-> ""]
    ELSE [kind |-> "NotLogic", style |-> val]

determine_style(m) ==
    LET present == { i \in DOMAIN StyleAttrs : StyleAttrs[i] \in DOMAIN m.attributes }
    IN  IF present # {}
        THEN LET first == CHOOSE i \in present : \A j \in present : i <= j
             IN  style_of_value(m.attributes[StyleAttrs[first]])
        ELSE IF m.logic_block
        THEN [kind |-> "Logic", style |-> ""]
        ELSE [kind |-> "Auto", style |-> ""]

(* A feasibility test that compares the clock signals only. *)
logic_ok_same_clk(m, k) ==
    IF k # "Auto" /\ k # "Logic" THEN FALSE
    ELSE IF m.wr_ports = << >> THEN TRUE
    ELSE \A i \in DOMAIN m.wr_ports :
            /\ m.wr_ports[i].clk_enable
            /\ m.wr_ports[i].clk = m.wr_ports[1].clk

(* MemMapping::determine_logic_ok *)
determine_logic_ok(m, k) ==
    IF k # "Auto" /\ k # "Logic" THEN FALSE
    ELSE IF m.wr_ports = << >> THEN TRUE
    ELSE \A i \in DOMAIN m.wr_ports :
            /\ m.wr_ports[i].clk_enable
            /\ m.wr_ports[i].clk = m.wr_ports[1].clk
            /\ m.wr_ports[i].clk_polarity = m.wr_ports[1].clk_polarity

-----------------------------------------------------------------------------
(* MemMapping::handle_ram_kind *)

ram_kind_pass(rdef, k, o) ==
    IF k = "Auto" \/ k = "NotLogic"
    THEN ~ \/ (k = "Distributed" /\ o.no_auto_distributed)
           \/ (k = "Block" /\ o.no_auto_block)
           \/ (k = "Huge" /\ o.no_auto_huge)
    ELSE rdef.kind = k

ram_kind_cfgs(cs) ==
    LET pass(cfg) == ram_kind_pass(RamOf(cfg), kind, lib.opts)
    IN  Filter(pass, cs)

(* An empty result that is an error for every kind. *)
ram_kind_error_any(k) == TRUE

(* The kinds for which an empty result of handle_ram_kind is a log_error. *)
ram_kind_error(k) == k \in {"Distributed", "Block", "Huge", "NotLogic"}

(* MemMapping::handle_ram_style *)
ram_style_cfgs(cs) ==
    LET one(cfg) ==
            LET use(def) ==
                    IF def.val # style THEN << >>
                    ELSE LET a == apply_opts(cfg.opts, def.opts)
                         IN  IF a.ok
                             THEN <<bind([cfg EXCEPT !.opts = a.opts],
                                         "style", def, "none", 0, "")>>
                             ELSE << >>
            IN  FlatMap(use, RamOf(cfg).style)
    IN  FlatMap(one, cs)

(* MemMapping::handle_init *)
(* An init filter that takes Zero for any defined contents. *)
init_kind_zero_ok(val, has_one) == val \in {"Any", "Zero"}

init_kind_ok(val, has_one) ==
    IF has_one THEN val = "Any" ELSE val \in {"Any", "Zero"}

init_cfgs(cs) ==
    IF ~init_has_nonx(mem) THEN cs
    ELSE LET one(cfg) ==
                 LET use(def) ==
                         IF ~init_kind_ok(def.val, init_has_one(mem)) THEN << >>
                         ELSE LET a == apply_opts(cfg.opts, def.opts)
                              IN  IF a.ok
                                  THEN <<bind([cfg EXCEPT !.opts = a.opts],
                                              "init", def, "none", 0, "")>>
                                  ELSE << >>
                 IN  FlatMap(use, RamOf(cfg).init)
         IN  FlatMap(one, cs)

-----------------------------------------------------------------------------
(* MemMapping::handle_wr_ports *)

(* The number of already-bound write ports on port group i. *)
wr_used(cfg, i) == Count(LAMBDA o : o.port_def = i, cfg.wr_ports)

(* "Make sure the target port group still has a free port." *)
wr_group_full(cfg, def, i) == wr_used(cfg, i) >= Len(def.val.names)

(* The forks of cfg for source write port `port` on port group i. *)
wr_bind_group(cfg, port, i) ==
    LET def == RamOf(cfg).ports[i]
        a   == apply_opts(cfg.opts, def.opts)
        cfg2 == bind([cfg EXCEPT !.opts = a.opts], "port", def, "none", 0, "")
        clock(cdef) ==
            LET b == apply_opts(cfg2.opts, cdef.opts)
                c == apply_opts(NoOpts, cdef.portopts)
                d == apply_clock([cfg2 EXCEPT !.opts = b.opts], cdef.val,
                                 port.clk, port.clk_polarity)
                pcfg3 == [NewWrPortConfig(i) EXCEPT !.portopts = c.opts,
                                                     !.clkpol_kind = cdef.val.kind]
            IN  IF b.ok /\ c.ok /\ d.ok
                THEN <<bind([d.cfg EXCEPT !.wr_ports = Append(@, pcfg3)], "clock",
                            cdef, "wr", Len(cfg.wr_ports) + 1, cdef.val.name)>>
                ELSE << >>
    IN  IF def.val.kind \in {"Ar", "Sr"} THEN << >>
        ELSE IF wr_group_full(cfg, def, i) THEN << >>
        ELSE IF ~a.ok THEN << >>
        ELSE FlatMap(clock, def.val.clock)

wr_bind(cfg, port) ==
    LET g[i \in 0..Len(RamOf(cfg).ports)] ==
            IF i = 0 THEN << >> ELSE g[i-1] \o wr_bind_group(cfg, port, i)
    IN  g[Len(RamOf(cfg).ports)]

(* A binding that treats an asynchronous write port like a clocked one. *)
wr_ports_cfgs_any(cs) ==
    LET cs0 == IF mem.wr_ports = << >>
               THEN Filter(LAMBDA cfg : ~RamOf(cfg).prune_rom, cs)
               ELSE cs
        step(acc, pidx) == FlatMap(LAMBDA cfg : wr_bind(cfg, mem.wr_ports[pidx]), acc)
    IN  Iterate(step, cs0, Len(mem.wr_ports))

wr_ports_cfgs(cs) ==
    LET cs0 == IF mem.wr_ports = << >>
               THEN Filter(LAMBDA cfg : ~RamOf(cfg).prune_rom, cs)
               ELSE cs
        step(acc, pidx) ==
            \* an async write port clears cfgs and returns: the result is empty,
            \* as it is when the remaining ports are bound to no candidate
            IF ~mem.wr_ports[pidx].clk_enable THEN << >>
            ELSE FlatMap(LAMBDA cfg : wr_bind(cfg, mem.wr_ports[pidx]), acc)
    IN  Iterate(step, cs0, Len(mem.wr_ports))

-----------------------------------------------------------------------------
(* MemMapping::handle_rd_ports *)

(* worker.sigmap_xmux on one bit *)
sigmap_xmux(b) == IF b \in DOMAIN mem.xmux THEN mem.xmux[b] ELSE b

(* SigSpec::extract_end(n) followed by extend_u0(abits) *)
addr_high(addr, n, abits) ==
    [i \in 1..abits |-> IF n + i <= Len(addr) THEN addr[n + i] ELSE "0"]

addr_compatible(wpidx, rpidx) ==
    LET wport == mem.wr_ports[wpidx]
        rport == mem.rd_ports[rpidx]
        max_wide_log2 == Max(rport.wide_log2, wport.wide_log2)
        abits == Max(Max(Len(rport.addr) - max_wide_log2, 0),
                     Max(Len(wport.addr) - max_wide_log2, 0))
        raddr == addr_high(rport.addr, max_wide_log2, abits)
        waddr == addr_high(wport.addr, max_wide_log2, abits)
    IN  \A i \in 1..abits : sigmap_xmux(raddr[i]) = sigmap_xmux(waddr[i])

(* The SAT queries, answered by the memory's oracle tables. *)
get_wr_implies_rd(wpidx, rpidx) == <<wpidx, rpidx>> \in mem.wr_implies_rd

(* An oracle that takes every write to exclude every read. *)
wr_excludes_rd_always(wpidx, rpidx) == TRUE

get_wr_excludes_rd(wpidx, rpidx) == <<wpidx, rpidx>> \in mem.wr_excludes_rd

(* A binding that skips the free-port check. *)
rd_group_never_full(cfg, def, i) == FALSE

(* "Make sure the target port group has a port not used up by write ports." *)
rd_group_full(cfg, def, i) == wr_used(cfg, i) >= Len(def.val.names)

(* First pass: read port pidx not shared with a write port, on group i. *)
rd_bind_unshared(cfg, pidx, i) ==
    LET port == mem.rd_ports[pidx]
        def  == RamOf(cfg).ports[i]
        a    == apply_opts(cfg.opts, def.opts)
        cfg2 == bind([cfg EXCEPT !.opts = a.opts], "port", def, "none", 0, "")
        pcfg2 == NewRdPortConfig(0, i)
        clock(cdef) ==
            LET b == apply_opts(cfg2.opts, cdef.opts)
                c == apply_opts(pcfg2.portopts, cdef.portopts)
                d == apply_clock([cfg2 EXCEPT !.opts = b.opts], cdef.val,
                                 port.clk, port.clk_polarity)
                pcfg3 == [pcfg2 EXCEPT !.portopts = c.opts,
                                       !.clkpol_kind = cdef.val.kind]
                rden(endef) ==
                    LET e == apply_opts(d.cfg.opts, endef.opts)
                        f == apply_opts(pcfg3.portopts, endef.portopts)
                        pcfg4 == [pcfg3 EXCEPT
                                    !.portopts = f.opts,
                                    !.emu_en = (endef.val = "None" /\ port.en # "1"),
                                    !.emit_en = (endef.val # "None")]
                    IN  IF e.ok /\ f.ok
                        THEN <<bind(bind([d.cfg EXCEPT !.opts = e.opts,
                                                      !.rd_ports = Append(@, pcfg4)],
                                         "clock", cdef, "rd", Len(cfg.rd_ports) + 1,
                                         cdef.val.name),
                                    "rden", endef, "rd", Len(cfg.rd_ports) + 1,
                                    endef.val)>>
                        ELSE << >>
            IN  IF b.ok /\ c.ok /\ d.ok THEN FlatMap(rden, def.val.rden) ELSE << >>
    IN  IF def.val.kind = "Sw" THEN << >>
        ELSE IF ~port.clk_enable /\ def.val.kind \in {"Sr", "Srsw"} THEN << >>
        ELSE IF rd_group_full(cfg, def, i) THEN << >>
        ELSE IF ~a.ok THEN << >>
        ELSE IF def.val.kind \in {"Sr", "Srsw"}
        THEN FlatMap(clock, def.val.clock)
        ELSE <<[cfg2 EXCEPT !.rd_ports =
                    Append(@, [pcfg2 EXCEPT !.emu_sync = port.clk_enable])]>>

(* A second pass that shares a write port even when it already has a     *)
(* read port.                                                              *)
rd_bind_shared_again(cfg, pidx, wpidx) ==
    LET port  == mem.rd_ports[pidx]
        wport == mem.wr_ports[wpidx]
        didx  == cfg.wr_ports[wpidx].port_def
        def   == RamOf(cfg).ports[didx]
        cfg2  == [cfg EXCEPT !.wr_ports[wpidx].rd_port = pidx]
        pcfg2 == [NewRdPortConfig(wpidx, didx) EXCEPT
                    !.emu_sync = (port.clk_enable /\ def.val.kind = "Arsw")]
    IN  IF def.val.kind = "Sw" THEN << >>
        ELSE IF ~addr_compatible(wpidx, pidx) THEN << >>
        ELSE <<[cfg2 EXCEPT !.rd_ports = Append(@, pcfg2)]>>

(* Second pass: read port pidx shared with write port wpidx. *)
rd_bind_shared(cfg, pidx, wpidx) ==
    LET port  == mem.rd_ports[pidx]
        wport == mem.wr_ports[wpidx]
        didx  == cfg.wr_ports[wpidx].port_def
        def   == RamOf(cfg).ports[didx]
        cfg2  == [cfg EXCEPT !.wr_ports[wpidx].rd_port = pidx]
        pcfg2 == [NewRdPortConfig(wpidx, didx) EXCEPT
                    !.emu_sync = (port.clk_enable /\ def.val.kind = "Arsw")]
        rden(endef) ==
            LET a == apply_wrport_opts(cfg2, wpidx, endef)
                emu_en == CASE endef.val = "None" -> port.en # "1"
                            [] endef.val = "WriteImplies" -> ~get_wr_implies_rd(wpidx, pidx)
                            [] OTHER -> FALSE
                pcfg3 == [pcfg2 EXCEPT !.emu_en = emu_en,
                                       !.emit_en = (endef.val # "None")]
            IN  IF ~a.ok THEN << >>
                ELSE IF endef.val = "WriteExcludes" /\ ~get_wr_excludes_rd(wpidx, pidx)
                THEN << >>
                ELSE <<bind([a.cfg EXCEPT !.rd_ports = Append(@, pcfg3)],
                            "rden", endef, "wr", wpidx, endef.val)>>
    IN  IF cfg.wr_ports[wpidx].rd_port # 0 THEN << >>
        ELSE IF def.val.kind = "Sw" THEN << >>
        ELSE IF ~addr_compatible(wpidx, pidx) THEN << >>
        ELSE IF def.val.kind = "Srsw" /\
                (~port.clk_enable \/ port.clk # wport.clk \/
                 port.clk_polarity # wport.clk_polarity)
        THEN << >>
        ELSE IF def.val.kind = "Srsw" THEN FlatMap(rden, def.val.rden)
        ELSE <<[cfg2 EXCEPT !.rd_ports = Append(@, pcfg2)]>>

(* A binding that puts the read port on every port group, whatever its    *)
(* kind, without sharing.                                                  *)
rd_bind_any(cfg, pidx) ==
    LET g[i \in 0..Len(RamOf(cfg).ports)] ==
            IF i = 0 THEN << >>
            ELSE Append(g[i-1], [cfg EXCEPT !.rd_ports = Append(@, NewRdPortConfig(0, i))])
    IN  g[Len(RamOf(cfg).ports)]

rd_bind(cfg, pidx) ==
    LET g[i \in 0..Len(RamOf(cfg).ports)] ==
            IF i = 0 THEN << >> ELSE g[i-1] \o rd_bind_unshared(cfg, pidx, i)
        h[w \in 0..Len(mem.wr_ports)] ==
            IF w = 0 THEN << >> ELSE h[w-1] \o rd_bind_shared(cfg, pidx, w)
    IN  g[Len(RamOf(cfg).ports)] \o h[Len(mem.wr_ports)]

rd_ports_cfgs(cs) ==
    Iterate(LAMBDA acc, pidx : FlatMap(LAMBDA cfg : rd_bind(cfg, pidx), acc),
            cs, Len(mem.rd_ports))

-----------------------------------------------------------------------------
(* MemMapping::handle_trans *)

(* Mem::emulate_read_first_ok (kernel/mem.cc). *)
emulate_read_first_ok(m) ==
    /\ m.wr_ports # << >>
    /\ \A i \in DOMAIN m.wr_ports :
          /\ m.wr_ports[i].clk_enable
          /\ m.wr_ports[i].clk = m.wr_ports[1].clk
          /\ m.wr_ports[i].clk_polarity = m.wr_ports[1].clk_polarity
    /\ \A i \in DOMAIN m.rd_ports :
          /\ m.rd_ports[i].clk_enable
          /\ m.rd_ports[i].clk = m.wr_ports[1].clk
          /\ m.rd_ports[i].clk_polarity = m.wr_ports[1].clk_polarity
    /\ \E i \in DOMAIN m.rd_ports : \E j \in DOMAIN m.wr_ports :
          ~m.rd_ports[i].transparency_mask[j] /\ ~m.rd_ports[i].collision_x_mask[j]

has_shared_rd(cfg) == \E i \in DOMAIN cfg.rd_ports : cfg.rd_ports[i].wr_port # 0

(* A fork that also rewrites candidates with a shared read port. *)
read_first_fork_all(cs) ==
    IF emulate_read_first_ok(mem)
    THEN FlatMap(LAMBDA cfg : <<cfg, [cfg EXCEPT !.emu_read_first = TRUE]>>, cs)
    ELSE cs

read_first_fork(cs) ==
    IF emulate_read_first_ok(mem)
    THEN FlatMap(LAMBDA cfg : IF ~has_shared_rd(cfg)
                              THEN <<cfg, [cfg EXCEPT !.emu_read_first = TRUE]>>
                              ELSE <<cfg>>, cs)
    ELSE cs

(* "Check if the target matches." *)
trans_target_matches(cfg, tdef, rpidx, wpidx) ==
    LET wpcfg == cfg.wr_ports[wpidx]
        rpdef == RamOf(cfg).ports[cfg.rd_ports[rpidx].port_def]
    IN  CASE tdef.val.target_kind = "Self"  -> wpcfg.rd_port = rpidx
          [] tdef.val.target_kind = "Other" -> wpcfg.rd_port # rpidx
          [] OTHER -> rpdef.val.names[1] = tdef.val.target_name

(* A capability check that ignores the transparency kind. *)
trans_kind_any(tdef, transparent) == TRUE

(* "Check if the transparency kind is acceptable." *)
trans_kind_ok(tdef, transparent) ==
    IF transparent THEN tdef.val.kind # "Old" ELSE tdef.val.kind = "Old"

(* The pair "has a transparency restriction to uphold". *)
trans_pair_relevant(rpidx, wpidx) ==
    /\ mem.rd_ports[rpidx].clk_enable
    /\ mem.wr_ports[wpidx].clk_enable
    /\ mem.rd_ports[rpidx].clk = mem.wr_ports[wpidx].clk
    /\ mem.rd_ports[rpidx].clk_polarity = mem.wr_ports[wpidx].clk_polarity

add_emu_trans(cfg, rpidx, wpidx) ==
    [cfg EXCEPT !.rd_ports[rpidx].emu_trans = Append(@, wpidx)]

trans_pair(cfg, rpidx, wpidx) ==
    LET rport == mem.rd_ports[rpidx]
        wpdef == RamOf(cfg).ports[cfg.wr_ports[wpidx].port_def]
        transparent == rport.transparency_mask[wpidx] \/ cfg.emu_read_first
        usable(tdef) == /\ trans_target_matches(cfg, tdef, rpidx, wpidx)
                        /\ trans_kind_ok(tdef, transparent)
        use(tdef) ==
            IF ~usable(tdef) THEN << >>
            ELSE IF wrport_opts_applied(cfg, wpidx, tdef)
            THEN <<bind(cfg, "wrtrans", tdef, "wr", wpidx, "")>>
            ELSE LET a == apply_wrport_opts(cfg, wpidx, tdef)
                 IN  IF a.ok THEN <<bind(a.cfg, "wrtrans", tdef, "wr", wpidx, "")>>
                     ELSE << >>
        found_free == \E t \in DOMAIN wpdef.val.wrtrans :
                          /\ usable(wpdef.val.wrtrans[t])
                          /\ wrport_opts_applied(cfg, wpidx, wpdef.val.wrtrans[t])
    IN  IF rport.collision_x_mask[wpidx] /\ ~cfg.emu_read_first THEN <<cfg>>
        ELSE IF cfg.rd_ports[rpidx].emu_sync
        THEN <<IF transparent THEN add_emu_trans(cfg, rpidx, wpidx) ELSE cfg>>
        ELSE FlatMap(use, wpdef.val.wrtrans) \o
             (IF ~found_free /\ transparent
              THEN <<add_emu_trans(cfg, rpidx, wpidx)>> ELSE << >>)

trans_cfgs(cs) ==
    LET nw == Len(mem.wr_ports)
        \* pair number n (row-major over read ports, then write ports)
        step(acc, n) ==
            LET rpidx == ((n - 1) \div nw) + 1
                wpidx == ((n - 1) % nw) + 1
            IN  IF trans_pair_relevant(rpidx, wpidx)
                THEN FlatMap(LAMBDA cfg : trans_pair(cfg, rpidx, wpidx), acc)
                ELSE acc
    IN  Iterate(step, read_first_fork(cs), Len(mem.rd_ports) * nw)

-----------------------------------------------------------------------------
(* MemMapping::handle_priority *)

(* `auto &p1cfg = cfg.rd_ports[p1idx]` followed by                         *)
(* `rdef.ports[p1cfg.port_def]`: the port group the code takes for p1.     *)
(* When the memory has fewer than p1idx read ports the read is out of      *)
(* bounds and yields `oob`: any group index, or one that names nothing.    *)
prio_p1_port_def(cfg, p1idx, oob) ==
    IF p1idx \in DOMAIN cfg.rd_ports THEN cfg.rd_ports[p1idx].port_def ELSE oob

prio_p1_name(cfg, p1idx, oob) ==
    LET d == prio_p1_port_def(cfg, p1idx, oob)
    IN  IF d \in DOMAIN RamOf(cfg).ports
        THEN RamOf(cfg).ports[d].val.names[1]
        ELSE "<garbage>"

add_emu_prio(cfg, p1idx, p2idx) ==
    [cfg EXCEPT !.wr_ports[p2idx].emu_prio = Append(@, p1idx)]

prio_pair(cfg, p1idx, p2idx, oob) ==
    LET p2def == RamOf(cfg).ports[cfg.wr_ports[p2idx].port_def]
        p1name == prio_p1_name(cfg, p1idx, oob)
        use(prdef) ==
            IF p1name # prdef.val THEN << >>
            ELSE IF wrport_opts_applied(cfg, p2idx, prdef)
            THEN <<bind(cfg, "wrprio", prdef, "wr", p2idx, "")>>
            ELSE LET a == apply_wrport_opts(cfg, p2idx, prdef)
                 IN  IF a.ok THEN <<bind(a.cfg, "wrprio", prdef, "wr", p2idx, "")>>
                     ELSE << >>
        found_free == \E t \in DOMAIN p2def.val.wrprio :
                          /\ p1name = p2def.val.wrprio[t].val
                          /\ wrport_opts_applied(cfg, p2idx, p2def.val.wrprio[t])
    IN  FlatMap(use, p2def.val.wrprio) \o
        (IF ~found_free THEN <<add_emu_prio(cfg, p1idx, p2idx)>> ELSE << >>)

priority_cfgs(cs, oob) ==
    LET nw == Len(mem.wr_ports)
        step(acc, n) ==
            LET p1idx == ((n - 1) \div nw) + 1
                p2idx == ((n - 1) % nw) + 1
            IN  IF mem.wr_ports[p2idx].priority_mask[p1idx]
                THEN FlatMap(LAMBDA cfg : prio_pair(cfg, p1idx, p2idx, oob), acc)
                ELSE acc
    IN  Iterate(step, cs, nw * nw)

(* Whether handle_priority reads cfg.rd_ports out of bounds. *)
priority_reads_oob(cs) ==
    /\ cs # << >>
    /\ \E p1idx \in DOMAIN mem.wr_ports : \E p2idx \in DOMAIN mem.wr_ports :
          /\ mem.wr_ports[p2idx].priority_mask[p1idx]
          /\ p1idx > Len(mem.rd_ports)

-----------------------------------------------------------------------------
(* MemMapping::handle_rd_init, handle_rd_arst, handle_rd_srst *)

(* The rdsrstmode forks of cfg2, taken when the enable is in use. *)
srst_mode_forks(cfg2, pidx) ==
    LET port == mem.rd_ports[pidx]
        pdef == RamOf(cfg2).ports[cfg2.rd_ports[pidx].port_def]
        mode(mdef) ==
            LET wrong == \/ (mdef.val = "SrstOverEn" /\ port.ce_over_srst)
                         \/ (mdef.val = "EnOverSrst" /\ ~port.ce_over_srst)
                cfg3 == IF wrong
                        THEN [cfg2 EXCEPT !.rd_ports[pidx].emu_srst_en_prio = TRUE]
                        ELSE cfg2
                a == apply_rdport_opts(cfg3, pidx, mdef)
            IN  IF a.ok THEN <<bind_rd(a.cfg, "rdsrstmode", mdef, pidx)>> ELSE << >>
    IN  FlatMap(mode, pdef.val.rdsrstmode)

(* After a sync reset value is bound: "If enable is in use, need to make   *)
(* sure the relative priority of enable and srst is correct.  Otherwise,   *)
(* proceed immediately."                                                   *)
srst_after_rstval(cfg2, pidx) ==
    IF mem.rd_ports[pidx].en = "1" THEN <<cfg2>> ELSE srst_mode_forks(cfg2, pidx)

(* The capability loop shared by the three handlers: the forks and         *)
(* found_free.  rkind is the ResetKind, val the reset value.               *)
rst_caps(cfg, pidx, rkind, val) ==
    LET pdef == RamOf(cfg).ports[cfg.rd_ports[pidx].port_def]
        bound(rstdef) == apply_rstval(cfg, pidx, rstdef.val, val)
        free(rstdef) == /\ rstdef.val.kind = rkind
                        /\ bound(rstdef).ok
                        /\ rdport_opts_applied(bound(rstdef).cfg, pidx, rstdef)
        use(rstdef) ==
            IF rstdef.val.kind # rkind THEN << >>
            ELSE IF ~bound(rstdef).ok THEN << >>
            ELSE LET a == IF free(rstdef) THEN [ok |-> TRUE, cfg |-> bound(rstdef).cfg]
                          ELSE apply_rdport_opts(bound(rstdef).cfg, pidx, rstdef)
                     b == bind_rd(a.cfg, "rdrstval", rstdef, pidx)
                 IN  IF ~a.ok THEN << >>
                     ELSE IF rkind = "Sync" THEN srst_after_rstval(b, pidx)
                     ELSE <<b>>
    IN  [cfgs |-> FlatMap(use, pdef.val.rdrstval),
         found_free |-> \E t \in DOMAIN pdef.val.rdrstval : free(pdef.val.rdrstval[t])]

set_emu_rst(cfg, pidx, rkind) ==
    CASE rkind = "Init"  -> [cfg EXCEPT !.rd_ports[pidx].emu_init = TRUE]
      [] rkind = "Async" -> [cfg EXCEPT !.rd_ports[pidx].emu_arst = TRUE]
      [] OTHER           -> [cfg EXCEPT !.rd_ports[pidx].emu_srst = TRUE]

(* "If no cap was found, or the cap found had a splitting cost to it,      *)
(* consider emulation as well."                                            *)
rst_emu_fork(cfg, pidx, rkind, found_free) ==
    IF ~found_free THEN <<set_emu_rst(cfg, pidx, rkind)>> ELSE << >>

(* A handler that does not skip ports whose register is emulated. *)
rst_one_noskip(cfg, pidx, rkind, val) ==
    LET c == rst_caps(cfg, pidx, rkind, val)
    IN  c.cfgs \o rst_emu_fork(cfg, pidx, rkind, c.found_free)

rst_one(cfg, pidx, rkind, val) ==
    IF cfg.rd_ports[pidx].emu_sync \/ cfg.rd_ports[pidx].emu_en THEN <<cfg>>
    ELSE LET c == rst_caps(cfg, pidx, rkind, val)
         IN  c.cfgs \o rst_emu_fork(cfg, pidx, rkind, c.found_free)

(* Whether the handler of rkind has work for a source read port. *)
rst_relevant(port, rkind) ==
    /\ port.clk_enable
    /\ CASE rkind = "Init"  -> ~is_fully_undef(port.init_value)
         [] rkind = "Async" -> port.arst # "0" /\ ~is_fully_undef(port.arst_value)
         [] OTHER           -> port.srst # "0" /\ ~is_fully_undef(port.srst_value)

rst_value(port, rkind) ==
    CASE rkind = "Init"  -> port.init_value
      [] rkind = "Async" -> port.arst_value
      [] OTHER           -> port.srst_value

rst_cfgs(cs, rkind) ==
    LET step(acc, pidx) ==
            IF rst_relevant(mem.rd_ports[pidx], rkind)
            THEN FlatMap(LAMBDA cfg : rst_one(cfg, pidx, rkind,
                                              rst_value(mem.rd_ports[pidx], rkind)), acc)
            ELSE acc
    IN  Iterate(step, cs, Len(mem.rd_ports))

rd_init_cfgs(cs) == rst_cfgs(cs, "Init")
rd_arst_cfgs(cs) == rst_cfgs(cs, "Async")
rd_srst_cfgs(cs) == rst_cfgs(cs, "Sync")

-----------------------------------------------------------------------------
(* MemMapping::score_emu_ports *)

SumSeq(s) ==
    LET g[i \in 0..Len(s)] == IF i = 0 THEN 0 ELSE g[i-1] + s[i]
    IN  g[Len(s)]

B2I(b) == IF b THEN 1 ELSE 0

(* A score that also charges a point for emu_sync. *)
rd_port_score_sync(pcfg) ==
    3 * Len(pcfg.emu_trans) + 3 * B2I(pcfg.emu_en) + 2 * B2I(pcfg.emu_init)
    + 2 * B2I(pcfg.emu_arst) + 2 * B2I(pcfg.emu_srst) + B2I(pcfg.emu_srst_en_prio)
    + B2I(pcfg.wr_port = 0) + B2I(pcfg.emu_sync)

rd_port_score(pcfg) ==
    3 * Len(pcfg.emu_trans)
    + 3 * B2I(pcfg.emu_en)
    + 2 * B2I(pcfg.emu_init)
    + 2 * B2I(pcfg.emu_arst)
    + 2 * B2I(pcfg.emu_srst)
    + B2I(pcfg.emu_srst_en_prio)
    + B2I(pcfg.wr_port = 0)

score_emu(cfg) ==
    (IF cfg.emu_read_first THEN 3 * Len(cfg.wr_ports) ELSE 0)
    + SumSeq([i \in DOMAIN cfg.wr_ports |-> Len(cfg.wr_ports[i].emu_prio)])
    + SumSeq([i \in DOMAIN cfg.rd_ports |-> rd_port_score(cfg.rd_ports[i])])

port_usage_wr(cfg, i) == Count(LAMBDA p : p.port_def = i, cfg.wr_ports)

port_usage_rd(cfg, i) ==
    Count(LAMBDA p : p.wr_port = 0 /\ p.port_def = i, cfg.rd_ports)

port_space(cfg, i) == Len(RamOf(cfg).ports[i].val.names) - port_usage_wr(cfg, i)

(* log_assert(space >= 0) and log_assert(space > 0) *)
space_asserts_ok(cfg) ==
    \A i \in DOMAIN RamOf(cfg).ports :
        /\ port_space(cfg, i) >= 0
        /\ (port_usage_rd(cfg, i) > 0 => port_space(cfg, i) > 0)

repl_port(cfg) ==
    LET step(acc, i) ==
            IF port_usage_rd(cfg, i) > 0
            THEN Max(acc, (port_usage_rd(cfg, i) + port_space(cfg, i) - 1)
                              \div port_space(cfg, i))
            ELSE acc
    IN  Iterate(step, 1, Len(RamOf(cfg).ports))

score_emu_cfgs(cs) ==
    [i \in DOMAIN cs |-> [cs[i] EXCEPT !.score_emu = score_emu(cs[i]),
                                       !.repl_port = repl_port(cs[i])]]

-----------------------------------------------------------------------------
(* MemMapping::handle_geom_split *)

split_dims(cs) ==
    LET one(cfg) ==
            LET g[d \in 0..Len(RamOf(cfg).dims)] ==
                    IF d = 0 THEN << >>
                    ELSE LET a == apply_opts(cfg.opts, RamOf(cfg).dims[d].opts)
                         IN  g[d-1] \o
                             (IF a.ok
                              THEN <<bind([cfg EXCEPT !.opts = a.opts, !.dims_def = d],
                                          "dims", RamOf(cfg).dims[d], "none", 0, "")>>
                              ELSE << >>)
            IN  g[Len(RamOf(cfg).dims)]
    IN  FlatMap(one, cs)

split_byte(cs) ==
    LET one(cfg) ==
            LET use(bdef) ==
                    IF opts_applied(cfg.opts, bdef.opts)
                    THEN <<bind([cfg EXCEPT !.byte = bdef.val],
                                "byte", bdef, "none", 0, "")>>
                    ELSE LET a == apply_opts(cfg.opts, bdef.opts)
                         IN  IF a.ok
                             THEN <<bind([cfg EXCEPT !.opts = a.opts, !.byte = bdef.val],
                                         "byte", bdef, "none", 0, "")>>
                             ELSE << >>
                found_free == \E b \in DOMAIN RamOf(cfg).byte :
                                  opts_applied(cfg.opts, RamOf(cfg).byte[b].opts)
            IN  FlatMap(use, RamOf(cfg).byte) \o
                (IF ~found_free THEN <<[cfg EXCEPT !.byte = 0]>> ELSE << >>)
    IN  FlatMap(one, cs)

split_wr_width(cs, pidx) ==
    LET one(cfg) ==
            LET pdef == RamOf(cfg).ports[cfg.wr_ports[pidx].port_def]
                g[w \in 0..Len(pdef.val.width)] ==
                    IF w = 0 THEN << >>
                    ELSE LET a == apply_wrport_opts(cfg, pidx, pdef.val.width[w])
                         IN  g[w-1] \o
                             (IF a.ok
                              THEN <<bind([a.cfg EXCEPT !.wr_ports[pidx].width_def = w],
                                          "width", pdef.val.width[w], "wr", pidx, "")>>
                              ELSE << >>)
            IN  g[Len(pdef.val.width)]
    IN  FlatMap(one, cs)

split_rd_width(cs, pidx) ==
    LET one(cfg) ==
            LET pcfg == cfg.rd_ports[pidx]
                pdef == RamOf(cfg).ports[pcfg.port_def]
                g[w \in 0..Len(pdef.val.width)] ==
                    IF w = 0 THEN << >>
                    ELSE LET a == apply_rdport_opts(cfg, pidx, pdef.val.width[w])
                         IN  g[w-1] \o
                             (IF a.ok
                              THEN <<bind([a.cfg EXCEPT !.rd_ports[pidx].width_def = w],
                                          "width", pdef.val.width[w], "rd", pidx, "")>>
                              ELSE << >>)
            IN  IF pcfg.wr_port # 0
                THEN <<[cfg EXCEPT !.rd_ports[pidx].width_def =
                                        cfg.wr_ports[pcfg.wr_port].width_def]>>
                ELSE g[Len(pdef.val.width)]
    IN  FlatMap(one, cs)

geom_split_cfgs(cs) ==
    LET a == split_byte(split_dims(cs))
        b == Iterate(split_wr_width, a, Len(mem.wr_ports))
    IN  Iterate(split_rd_width, b, Len(mem.rd_ports))

-----------------------------------------------------------------------------
(* same_geom and MemMapping::prune_pre_geom *)

same_geom(a, b) ==
    /\ a.ram_def = b.ram_def
    /\ a.dims_def = b.dims_def
    /\ a.byte = b.byte
    /\ \A i \in DOMAIN a.wr_ports :
          /\ a.wr_ports[i].rd_port = b.wr_ports[i].rd_port
          /\ a.wr_ports[i].port_def = b.wr_ports[i].port_def
          /\ a.wr_ports[i].width_def = b.wr_ports[i].width_def
    /\ \A i \in DOMAIN a.rd_ports :
          /\ a.rd_ports[i].wr_port = b.rd_ports[i].wr_port
          /\ a.rd_ports[i].port_def = b.rd_ports[i].port_def
          /\ a.rd_ports[i].width_def = b.rd_ports[i].width_def

(* The first kept earlier candidate with the geometry of cs[i], or 0. *)
pre_geom_match(cs, keep, i) ==
    LET m == { j \in 1..(i-1) : keep[j] /\ same_geom(cs[i], cs[j]) }
    IN  IF m = {} THEN 0 ELSE CHOOSE j \in m : \A j2 \in m : j <= j2

(* One iteration of the outer loop: keep grows by the entry of cs[i].       *)
(* When cs[i] has the lower score the code writes `keep[i] = false` one     *)
(* past the end of keep and then pushes true: entry j is left as it was.    *)
pre_geom_step(cs, keep, i) ==
    LET j == pre_geom_match(cs, keep, i)
    IN  IF j = 0 THEN Append(keep, TRUE)
        ELSE IF cs[i].score_emu < cs[j].score_emu THEN Append(keep, TRUE)
        ELSE Append(keep, FALSE)

pre_geom_keep(cs) ==
    Iterate(LAMBDA keep, i : pre_geom_step(cs, keep, i), << >>, Len(cs))

(* Whether prune_pre_geom writes past the end of keep. *)
pre_geom_writes_oob(cs) ==
    LET keep == pre_geom_keep(cs)
    IN  \E i \in DOMAIN cs :
            LET j == pre_geom_match(cs, SubSeq(keep, 1, i-1), i)
            IN  j # 0 /\ cs[i].score_emu < cs[j].score_emu

keep_filter(cs, keep) ==
    LET g[i \in 0..Len(cs)] ==
            IF i = 0 THEN << >>
            ELSE IF keep[i] THEN Append(g[i-1], cs[i]) ELSE g[i-1]
    IN  g[Len(cs)]

prune_pre_geom_cfgs(cs) == keep_filter(cs, pre_geom_keep(cs))

-----------------------------------------------------------------------------
(* MemMapping::handle_geom.  Bit positions, wide bits and the *_log2       *)
(* indices into dbits are 0-based as in the code.                          *)

Dbits(dims, k) == dims.dbits[k + 1]

(* port.en[pos] *)
EnBit(port, pos) == port.en[pos + 1]

(* port.en.extract(offset, len) *)
EnExtract(port, offset, len) == SubSeq(port.en, offset + 1, offset + len)

(* <<first, last>> of a width list within dims.dbits *)
xlat_width_range(dims, widths) ==
    IF widths = << >> THEN <<0, Len(dims.dbits) - 1>>
    ELSE LET m == { i \in 0..(Len(dims.dbits) - 1) : Dbits(dims, i) = widths[1] }
             i == CHOOSE i \in m : \A i2 \in m : i <= i2
         IN  <<i, i + Len(widths) - 1>>

(* The sub-words of a write port that the byte_boundary loop visits. *)
byte_boundary_subs(port) == 0..(port.wide_log2 - 1)

byte_boundary(i) ==
    \/ i = 0
    \/ \E p \in DOMAIN mem.wr_ports : \E sub \in byte_boundary_subs(mem.wr_ports[p]) :
          EnBit(mem.wr_ports[p], sub * mem.width + i)
              # EnBit(mem.wr_ports[p], sub * mem.width + i - 1)

(* en.sort_and_unify(); GetSize(en) *)
wren_size(port) == Cardinality(Range(port.en))

(* Wide bit j of a write port is uniform. *)
wide_bit_uniform(port, j) ==
    \A k \in { k2 \in 0..(Pow2(port.wide_log2) - 1) : k2 % Pow2(j + 1) = 0 } :
        EnExtract(port, k * mem.width, mem.width * Pow2(j))
            = EnExtract(port, (k + Pow2(j)) * mem.width, mem.width * Pow2(j))

MinOf(S, dflt) == IF S = {} THEN dflt ELSE CHOOSE x \in S : \A y \in S : x <= y
MaxOf(S, dflt) == IF S = {} THEN dflt ELSE CHOOSE x \in S : \A y \in S : x >= y

wr_width_def(cfg, i) ==
    RamOf(cfg).ports[cfg.wr_ports[i].port_def].val.width[cfg.wr_ports[i].width_def].val

rd_width_def(cfg, i) ==
    RamOf(cfg).ports[cfg.rd_ports[i].port_def].val.width[cfg.rd_ports[i].width_def].val

(* The per-candidate values handle_geom computes before its search. *)
geom_ctx(cfg) ==
    LET dims == RamOf(cfg).dims[cfg.dims_def].val
        nd == Len(dims.dbits)
        wr_range == [i \in DOMAIN cfg.wr_ports |->
                        xlat_width_range(dims, wr_width_def(cfg, i).wr_widths)]
        rd_range == [i \in DOMAIN cfg.rd_ports |->
                        xlat_width_range(dims,
                            IF rd_width_def(cfg, i).tied
                            THEN rd_width_def(cfg, i).wr_widths
                            ELSE rd_width_def(cfg, i).rd_widths)]
        max_wr_wide_log2 ==
            MaxOf({ mem.wr_ports[i].wide_log2 : i \in DOMAIN mem.wr_ports } \cup {0}, 0)
        max_wide_log2 ==
            MaxOf({ mem.rd_ports[i].wide_log2 : i \in DOMAIN mem.rd_ports }
                  \cup {max_wr_wide_log2}, 0)
        \* the tied, shared write ports whose read port is wider
        widened == { i \in DOMAIN mem.wr_ports :
                        /\ wr_width_def(cfg, i).tied
                        /\ cfg.wr_ports[i].rd_port # 0
                        /\ mem.rd_ports[cfg.wr_ports[i].rd_port].wide_log2
                               > mem.wr_ports[i].wide_log2 }
        nu_bits == { j \in 0..(max_wide_log2 - 1) :
                        \E i \in DOMAIN mem.wr_ports :
                            /\ j < mem.wr_ports[i].wide_log2
                            /\ ~wide_bit_uniform(mem.wr_ports[i], j) }
    IN  [dims |-> dims, nd |-> nd, wr_range |-> wr_range, rd_range |-> rd_range,
         byte_width_log2 |->
            IF cfg.byte = 0 THEN nd - 1
            ELSE MaxOf({ i \in 0..(nd - 1) : cfg.byte >= Dbits(dims, i) }, 0),
         max_wide_log2 |-> max_wide_log2,
         wide_nu_start |->
            MinOf(nu_bits \cup { mem.wr_ports[i].wide_log2 : i \in widened }
                  \cup {max_wide_log2}, 0),
         wide_nu_end |->
            MaxOf({ mem.rd_ports[cfg.wr_ports[i].rd_port].wide_log2 : i \in widened }
                  \cup {max_wr_wide_log2}, 0),
         start_base |->
            MinOf({ wr_range[i][1] : i \in DOMAIN wr_range }
                  \cup { rd_range[i][1] : i \in DOMAIN rd_range } \cup {nd - 1}, 0)]

(* unit_width_log2 for a base width *)
unit_width_log2(g, base) ==
    MinOf({ g.wr_range[i][2] : i \in DOMAIN g.wr_range }
          \cup { g.rd_range[i][2] : i \in DOMAIN g.rd_range } \cup {base}, 0)

effective_byte(cfg, unit_width) ==
    IF mem.wr_ports = << >> THEN 1
    ELSE IF cfg.byte = 0 \/ cfg.byte > unit_width THEN unit_width
    ELSE cfg.byte

(* "Create the swizzle pattern." *)
(* A swizzle without padding. *)
PadNone(sw, eb) == sw

PadTo(sw, eb) ==
    sw \o [i \in 1..((eb - (Len(sw) % eb)) % eb) |-> -1]

make_swizzle(eb) ==
    LET g[i \in 0..mem.width] ==
            IF i = 0 THEN << >>
            ELSE Append(IF byte_boundary(i - 1) THEN PadTo(g[i-1], eb) ELSE g[i-1], i - 1)
    IN  PadTo(g[mem.width], eb)

(* The width index a port reaches with the wide bits of mask made hard. *)
hard_width(base, wide_log2, mask) ==
    base + Cardinality({ i \in mask : i < wide_log2 })

(* The write ports whose minimum width is not met. *)
min_width_unmet(g, base, mask) ==
    { p \in DOMAIN mem.wr_ports :
        LET w == hard_width(base, mem.wr_ports[p].wide_log2, mask)
        IN  w < g.wr_range[p][1] /\ w < g.byte_width_log2 }

max_width_ok(g, base, mask) ==
    /\ \A p \in DOMAIN mem.wr_ports :
          hard_width(base, mem.wr_ports[p].wide_log2, mask) <= g.wr_range[p][2]
    /\ \A p \in DOMAIN mem.rd_ports :
          hard_width(base, mem.rd_ports[p].wide_log2, mask) <= g.rd_range[p][2]

(* The wide bits of a port that are emulated: emu_wide_bits minus the      *)
(* non-hard bits below the port's wide_log2.                               *)
port_emu_w(g, wide_log2, mask) ==
    (g.max_wide_log2 - Cardinality(mask))
        - Cardinality({ i \in 0..(wide_log2 - 1) : i \notin mask })

(* The double -> int conversion of `best_cost = cost`, in cost units. *)
cost_to_int(cost) == (cost \div CostScale) * CostScale

(* A test that never stores the first configuration. *)
geom_never_first(st, cost) == st.got_config /\ cost < st.best_cost

(* Whether an evaluated configuration replaces the stored one. *)
geom_better(st, cost) == ~st.got_config \/ cost < st.best_cost

(* The "if (min_width_ok)" block: evaluate the configuration. *)
geom_evaluate(g, st, base, unit, swizzle, mask) ==
    LET emu_wide_bits == g.max_wide_log2 - Cardinality(mask)
        mult_wide == Pow2(emu_wide_bits)
        addrs == Pow2(g.dims.abits - base + emu_wide_bits)
        min_addr == mem.start_offset \div addrs
        max_addr == (mem.start_offset + mem.size - 1) \div addrs
        mult_a == max_addr - min_addr + 1
        bits == mult_a * mult_wide * Len(swizzle)
        unit_width == Dbits(g.dims, unit)
        repl == (bits + unit_width - 1) \div unit_width
        score_demux ==
            SumSeq([i \in DOMAIN mem.wr_ports |->
                LET w == port_emu_w(g, mem.wr_ports[i].wide_log2, mask)
                IN  IF w # 0 \/ mult_a # 1
                    THEN (mult_a * Pow2(w)) * wren_size(mem.wr_ports[i]) ELSE 0])
        score_mux ==
            SumSeq([i \in DOMAIN mem.rd_ports |->
                LET w == port_emu_w(g, mem.rd_ports[i].wide_log2, mask)
                IN  ((mult_a * Pow2(w)) - 1) * (mem.width * Pow2(mem.rd_ports[i].wide_log2))])
        cost == g.dims.cost * repl * st.cfg.repl_port
                + score_mux * FACTOR_MUX
                + score_demux * FACTOR_DEMUX
                + st.cfg.score_emu * FACTOR_EMU * CostScale
        config == [st.cfg EXCEPT !.base_width_log2 = base,
                                 !.unit_width_log2 = unit,
                                 !.swizzle = swizzle,
                                 !.hard_wide_mask = mask,
                                 !.emu_wide_mask = (0..(g.max_wide_log2 - 1)) \ mask,
                                 !.repl_d = repl,
                                 !.score_demux = score_demux,
                                 !.score_mux = score_mux,
                                 !.cost = cost]
        \* seen is a history of the search: every configuration evaluated so
        \* far, as it would be stored.  The code keeps only the stored one.
        st1 == [st EXCEPT !.seen = Append(@, config)]
    IN  IF geom_better(st, cost)
        THEN [st1 EXCEPT !.cfg = config,
                         !.best_cost = cost_to_int(cost),
                         !.got_config = TRUE]
        ELSE st1

(* "Now, pick the next bit to add to the hard wide mask": the bit, or -1   *)
(* when the search of this base width is over (bw_done).                   *)
next_hw_scan(g, base, mask, scan_from, scan_to) ==
    LET free == { b \in scan_to..(scan_from - 1) : b \notin mask }
        bit == MaxOf(free, -1)
    IN  IF free = {} THEN -1
        ELSE IF max_width_ok(g, base, mask \cup {bit}) THEN bit
        ELSE -1

(* The result is [bit, byte_failed]. *)
next_hw(g, base, mask, min_width_ok, min_width_bit, byte_failed) ==
    IF ~min_width_ok
    THEN [bit |-> next_hw_scan(g, base, mask, min_width_bit, 0),
          byte_failed |-> byte_failed]
    ELSE IF byte_failed
    THEN [bit |-> next_hw_scan(g, base, mask, g.max_wide_log2, g.wide_nu_end),
          byte_failed |-> TRUE]
    ELSE IF base + Cardinality(mask) < g.byte_width_log2
    THEN LET b == next_hw_scan(g, base, mask, g.wide_nu_start, 0)
         IN  IF b # -1 THEN [bit |-> b, byte_failed |-> FALSE]
             \* retry: byte_failed = true; goto next_hw
             ELSE [bit |-> next_hw_scan(g, base, mask, g.max_wide_log2, g.wide_nu_end),
                   byte_failed |-> TRUE]
    ELSE [bit |-> next_hw_scan(g, base, mask, g.max_wide_log2, 0),
          byte_failed |-> FALSE]

(* The while (1) loop over hard wide masks for one base width. *)
RECURSIVE hw_loop(_, _, _, _, _, _, _)
hw_loop(g, st, base, unit, swizzle, mask, byte_failed) ==
    LET unmet == min_width_unmet(g, base, mask)
        min_width_ok == unmet = {}
        min_width_bit == MinOf({ mem.wr_ports[p].wide_log2 : p \in unmet }
                               \cup {g.wide_nu_start}, 0)
        st2 == IF min_width_ok THEN geom_evaluate(g, st, base, unit, swizzle, mask)
               ELSE st
        nx == next_hw(g, base, mask, min_width_ok, min_width_bit, byte_failed)
    IN  IF g.dims.tied THEN st2
        ELSE IF nx.bit = -1 THEN st2
        \* "Bit ok, commit."  added is a history of the committed bits.
        ELSE hw_loop(g, [st2 EXCEPT !.added = Append(@, [base |-> base, bit |-> nx.bit])],
                     base, unit, swizzle, mask \cup {nx.bit}, nx.byte_failed)

(* The loop over base widths.  A failed log_assert(unit_width %             *)
(* effective_byte == 0) stops the pass and is recorded in assert_failed.    *)
RECURSIVE base_loop(_, _, _)
base_loop(g, st, base) ==
    IF base >= g.nd THEN st
    ELSE LET unit == unit_width_log2(g, base)
             unit_width == Dbits(g.dims, unit)
             eb == effective_byte(st.cfg, unit_width)
         IN  IF unit # base /\ st.got_config THEN st
             ELSE IF unit_width % eb # 0 THEN [st EXCEPT !.assert_failed = TRUE]
             ELSE base_loop(g,
                      hw_loop(g, st, base, unit, make_swizzle(eb), {}, FALSE),
                      base + 1)

geom_one(cfg) ==
    LET g == geom_ctx(cfg)
    IN  base_loop(g, [cfg |-> cfg, got_config |-> FALSE, best_cost |-> 0,
                      assert_failed |-> FALSE, seen |-> << >>, added |-> << >>],
                  g.start_base)

(* log_assert(unit_width % effective_byte == 0) and log_assert(got_config) *)
geom_asserts_ok(cs) ==
    \A i \in DOMAIN cs : ~geom_one(cs[i]).assert_failed /\ geom_one(cs[i]).got_config

geom_cfgs(cs) == [i \in DOMAIN cs |-> geom_one(cs[i]).cfg]

-----------------------------------------------------------------------------
(* MemMapping::prune_post_geom *)

resource_key(cfg) ==
    LET rdef == RamOf(cfg)
        dims == rdef.dims[cfg.dims_def].val
    IN  IF dims.resource_name # "" THEN dims.resource_name
        ELSE IF rdef.kind = "Distributed" THEN "[distributed]"
        ELSE IF rdef.kind = "Block" THEN "[block]"
        ELSE IF rdef.kind = "Huge" THEN "[huge]"
        ELSE ""

(* A comparison that lets a later candidate win a tie. *)
post_geom_better_or_equal(cfg, ocfg) == cfg.cost <= ocfg.cost

(* cfg.cost < ocfg.cost *)
post_geom_better(cfg, ocfg) == cfg.cost < ocfg.cost

(* rsrc after the first n candidates: resource key -> candidate index *)
RECURSIVE post_geom_rsrc(_, _)
post_geom_rsrc(cs, n) ==
    IF n = 0 THEN << >>
    ELSE LET r == post_geom_rsrc(cs, n - 1)
             key == resource_key(cs[n])
         IN  IF key \notin DOMAIN r THEN r @@ (key :> n)
             ELSE IF post_geom_better(cs[n], cs[r[key]])
                  THEN [r EXCEPT ![key] = n]
                  ELSE r

prune_post_geom_cfgs(cs) ==
    LET r == post_geom_rsrc(cs, Len(cs))
    IN  keep_filter(cs, [i \in DOMAIN cs |-> r[resource_key(cs[i])] = i])

-----------------------------------------------------------------------------
(* MemoryLibMapPass::execute: the selection among map.cfgs.                *)

(* `best = map.cfgs[i].cost`, best being an int. *)
best_of_cost(cost) == cost_to_int(cost)

(* A fallback that costs nothing. *)
best_of_logic_free(lc) == 0

(* `int best = map.logic_cost`, logic_cost = mem.width * mem.size *)
best_of_logic(lc) == cost_to_int(lc)

(* The selection loop: [idx, best] after the first n candidates; idx 0 is  *)
(* the code's -1.                                                          *)
RECURSIVE select_loop(_, _, _)
select_loop(cs, start, n) ==
    IF n = 0 THEN start
    ELSE LET r == select_loop(cs, start, n - 1)
         IN  IF cs[n].cost < r.best
             THEN [idx |-> n, best |-> best_of_cost(cs[n].cost)]
             ELSE r

(* An error condition that forgets the soft-logic fallback. *)
no_hard_mapping(lok, cs) == cs = << >>

(* "no valid mapping found for memory" *)
no_valid_mapping(lok, cs) == ~lok /\ cs = << >>

select_idx(lok, lc, cs) ==
    LET start == IF ~lok THEN [idx |-> 1, best |-> best_of_cost(cs[1].cost)]
                 ELSE [idx |-> 0, best |-> best_of_logic(lc)]
    IN  select_loop(cs, start, Len(cs)).idx

-----------------------------------------------------------------------------
(* The pipeline as a state machine: one action per stage of the            *)
(* MemMapping constructor, then the selection of execute.                  *)

Stages == <<"handle_ram_kind", "handle_ram_style", "handle_init", "handle_wr_ports",
            "handle_rd_ports", "handle_trans", "handle_priority", "handle_rd_init",
            "handle_rd_arst", "handle_rd_srst", "score_emu_ports", "handle_geom_split",
            "prune_pre_geom", "handle_geom", "prune_post_geom", "select">>

StageNo(name) == CHOOSE i \in DOMAIN Stages : Stages[i] = name

(* The stage `name` has run (and the run went on). *)
After(name) == pc \in { Stages[i] : i \in (StageNo(name) + 1)..Len(Stages) } \cup {"done"}

(* A stage that replaces cfgs and hands over to the next stage. *)
Stage(name, new_cfgs) ==
    /\ pc = name
    /\ prev_cfgs' = cfgs
    /\ cfgs' = new_cfgs
    /\ pc' = Stages[StageNo(name) + 1]
    /\ UNCHANGED <<lib, mem, kind, style, logic_ok, logic_cost, error, emitted, cells,
                   mem_removed>>

(* A log_error or a failed log_assert: the run ends. *)
Fail(name, msg, new_cfgs) ==
    /\ pc = name
    /\ prev_cfgs' = cfgs
    /\ cfgs' = new_cfgs
    /\ pc' = "failed"
    /\ error' = msg
    /\ UNCHANGED <<lib, mem, kind, style, logic_ok, logic_cost, emitted, cells, mem_removed>>

(* The head of the constructor: determine_style, determine_logic_ok,       *)
(* logic_cost, and one candidate per RAM definition.                       *)
MemMapping ==
    /\ pc = "MemMapping"
    /\ kind' = determine_style(mem).kind
    /\ style' = determine_style(mem).style
    /\ logic_ok' = determine_logic_ok(mem, determine_style(mem).kind)
    /\ logic_cost' = mem.width * mem.size * CostScale
    /\ prev_cfgs' = cfgs
    /\ IF determine_style(mem).kind = "Logic"
       THEN cfgs' = << >> /\ pc' = "select"
       ELSE /\ cfgs' = [i \in DOMAIN lib.ram_defs |-> NewMemConfig(i)]
            /\ pc' = "handle_ram_kind"
    /\ UNCHANGED <<lib, mem, error, emitted, cells, mem_removed>>

handle_ram_kind ==
    /\ pc = "handle_ram_kind"
    /\ IF style # "" THEN Stage("handle_ram_kind", cfgs)
       ELSE IF ram_kind_cfgs(cfgs) = << >> /\ ram_kind_error(kind)
       THEN Fail("handle_ram_kind", "no available RAMs", ram_kind_cfgs(cfgs))
       ELSE Stage("handle_ram_kind", ram_kind_cfgs(cfgs))

handle_ram_style ==
    /\ pc = "handle_ram_style"
    /\ IF style = "" THEN Stage("handle_ram_style", cfgs)
       ELSE IF ram_style_cfgs(cfgs) = << >>
       THEN Fail("handle_ram_style", "no available RAMs with style", ram_style_cfgs(cfgs))
       ELSE Stage("handle_ram_style", ram_style_cfgs(cfgs))

handle_init ==
    /\ pc = "handle_init"
    /\ Stage("handle_init", init_cfgs(cfgs))

handle_wr_ports ==
    /\ pc = "handle_wr_ports"
    /\ Stage("handle_wr_ports", wr_ports_cfgs(cfgs))

handle_rd_ports ==
    /\ pc = "handle_rd_ports"
    /\ Stage("handle_rd_ports", rd_ports_cfgs(cfgs))

handle_trans ==
    /\ pc = "handle_trans"
    /\ Stage("handle_trans", trans_cfgs(cfgs))

(* The outcomes of the out-of-bounds read of cfg.rd_ports: -1 is a crash,  *)
(* any other value the port group index the stray read produced.           *)
PrioOobOutcomes == -1..2

handle_priority ==
    /\ pc = "handle_priority"
    /\ IF priority_reads_oob(cfgs)
       THEN \E oob \in PrioOobOutcomes :
               IF oob = -1 THEN Fail("handle_priority", "crash", cfgs)
               ELSE Stage("handle_priority", priority_cfgs(cfgs, oob))
       ELSE Stage("handle_priority", priority_cfgs(cfgs, 0))

handle_rd_init ==
    /\ pc = "handle_rd_init"
    /\ Stage("handle_rd_init", rd_init_cfgs(cfgs))

handle_rd_arst ==
    /\ pc = "handle_rd_arst"
    /\ Stage("handle_rd_arst", rd_arst_cfgs(cfgs))

handle_rd_srst ==
    /\ pc = "handle_rd_srst"
    /\ Stage("handle_rd_srst", rd_srst_cfgs(cfgs))

score_emu_ports ==
    /\ pc = "score_emu_ports"
    /\ IF \A i \in DOMAIN cfgs : space_asserts_ok(cfgs[i])
       THEN Stage("score_emu_ports", score_emu_cfgs(cfgs))
       ELSE Fail("score_emu_ports", "log_assert(space)", cfgs)

handle_geom_split ==
    /\ pc = "handle_geom_split"
    /\ Stage("handle_geom_split", geom_split_cfgs(cfgs))

(* The write past the end of keep either goes unnoticed or stops the run. *)
prune_pre_geom ==
    /\ pc = "prune_pre_geom"
    /\ \/ Stage("prune_pre_geom", prune_pre_geom_cfgs(cfgs))
       \/ /\ pre_geom_writes_oob(cfgs)
          /\ Fail("prune_pre_geom", "crash", cfgs)

handle_geom ==
    /\ pc = "handle_geom"
    /\ IF geom_asserts_ok(cfgs)
       THEN Stage("handle_geom", geom_cfgs(cfgs))
       ELSE Fail("handle_geom", "log_assert(geom)", cfgs)

prune_post_geom ==
    /\ pc = "prune_post_geom"
    /\ Stage("prune_post_geom", prune_post_geom_cfgs(cfgs))

(* MemMapping::emit, as far as the selection is concerned: the candidate   *)
(* is instantiated and the memory removed.                                 *)
(* A port assignment that puts the write ports on the first replica only. *)
emit_ports_wr_once(cfg) ==
    LET rdef == RamOf(cfg)
        empty == [rp \in 0..(cfg.repl_port - 1) |-> [pgi \in DOMAIN rdef.ports |-> << >>]]
        wr_step(acc, i) ==
            [acc EXCEPT ![0][cfg.wr_ports[i].port_def] =
                Append(@, <<i, cfg.wr_ports[i].rd_port>>)]
        rd_step(acc, i) ==
            LET pd == cfg.rd_ports[i].port_def
                room == { j \in DOMAIN acc.ports :
                            Len(acc.ports[j][pd]) < Len(rdef.ports[pd].val.names) }
            IN  IF cfg.rd_ports[i].wr_port # 0 \/ acc.oob THEN acc
                ELSE IF room = {} THEN [acc EXCEPT !.oob = TRUE]
                ELSE [acc EXCEPT !.ports[MinOf(room, 0)][pd] = Append(@, <<0, i>>)]
    IN  Iterate(rd_step,
                [ports |-> Iterate(wr_step, empty, Len(cfg.wr_ports)), oob |-> FALSE],
                Len(cfg.rd_ports))

(* "tgt (repl, port group, port) -> mem (wr port, rd port)": ports[rp][pgi] *)
(* is the list of <<wr port, rd port>> (0 for no port) on port group pgi   *)
(* of replica rp.  oob is set when the while loop that looks for a replica *)
(* with a free alias runs past the last replica (a read outside `ports`).  *)
emit_ports(cfg) ==
    LET rdef == RamOf(cfg)
        empty == [rp \in 0..(cfg.repl_port - 1) |-> [pgi \in DOMAIN rdef.ports |-> << >>]]
        wr_step(acc, i) ==
            [rp \in DOMAIN acc |->
                [acc[rp] EXCEPT ![cfg.wr_ports[i].port_def] =
                    Append(@, <<i, IF rp = 0 THEN cfg.wr_ports[i].rd_port ELSE 0>>)]]
        rd_step(acc, i) ==
            LET pd == cfg.rd_ports[i].port_def
                room == { j \in DOMAIN acc.ports :
                            Len(acc.ports[j][pd]) < Len(rdef.ports[pd].val.names) }
            IN  IF cfg.rd_ports[i].wr_port # 0 \/ acc.oob THEN acc
                ELSE IF room = {} THEN [acc EXCEPT !.oob = TRUE]
                ELSE [acc EXCEPT !.ports[MinOf(room, 0)][pd] = Append(@, <<0, i>>)]
    IN  Iterate(rd_step,
                [ports |-> Iterate(wr_step, empty, Len(cfg.wr_ports)), oob |-> FALSE],
                Len(cfg.rd_ports))

(* hw_wr_wide_log2 / hw_rd_wide_log2: the base width plus the hard wide     *)
(* bits below wide_log2, brought into the width range.                     *)
hw_wide_log2(cfg, wide_log2, range) ==
    LET hw == hard_width(cfg.base_width_log2, wide_log2, cfg.hard_wide_mask)
        up == IF hw < range[1] THEN range[1] ELSE hw
    IN  IF up > range[2] THEN range[2] ELSE up

(* The alias of port group pgi that carries pair = <<wpidx, rpidx>>: the   *)
(* width determination and the width parameters of the cells (0 for a      *)
(* parameter that is not set), and the width of the RD_DATA wire.          *)
emit_slot(cfg, pgi, pair) ==
    LET rdef == RamOf(cfg)
        dims == rdef.dims[cfg.dims_def].val
        pdef == rdef.ports[pgi].val
        wpidx == pair[1]
        rpidx == pair[2]
        wr0 == IF wpidx # 0 THEN mem.wr_ports[wpidx].wide_log2 ELSE 0
        \* "auto &rport = mem.wr_ports[wpidx]; rd_wide_log2 = rport.wide_log2;"
        rd0 == IF wpidx # 0
               THEN (IF rpidx # 0 THEN mem.wr_ports[wpidx].wide_log2 ELSE 0)
               ELSE mem.rd_ports[rpidx].wide_log2
        wide == IF wpidx # 0 THEN (IF rpidx # 0 /\ rd0 > wr0 THEN rd0 ELSE wr0) ELSE rd0
        width_def == IF wpidx # 0 THEN cfg.wr_ports[wpidx].width_def
                     ELSE cfg.rd_ports[rpidx].width_def
        wdef == pdef.width[width_def].val
        wr_wide_log2 == IF wdef.tied THEN wide ELSE wr0
        rd_wide_log2 == IF wdef.tied THEN wide ELSE rd0
        hw_wr == hw_wide_log2(cfg, wr_wide_log2, xlat_width_range(dims, wdef.wr_widths))
        hw_rd == hw_wide_log2(cfg, rd_wide_log2, xlat_width_range(dims, wdef.rd_widths))
    IN  [USED |-> TRUE, wpidx |-> wpidx, rpidx |-> rpidx, tied |-> wdef.tied,
         wide_log2 |-> wide, wr_wide_log2 |-> wr_wide_log2, rd_wide_log2 |-> rd_wide_log2,
         hw_wr_wide_log2 |-> hw_wr, hw_rd_wide_log2 |-> hw_rd,
         WIDTH |-> IF ~dims.tied /\ wdef.tied THEN Dbits(dims, hw_wr) ELSE 0,
         WR_WIDTH |-> IF ~dims.tied /\ ~wdef.tied /\ wpidx # 0
                      THEN Dbits(dims, hw_wr) ELSE 0,
         RD_WIDTH |-> IF ~dims.tied /\ ~wdef.tied /\ rpidx # 0
                      THEN Dbits(dims, hw_rd) ELSE 0,
         RD_DATA |-> IF rpidx # 0 THEN Dbits(dims, hw_rd) ELSE 0]

(* The netlist emit leaves: the cells <<rp, rd>>, the port assignment and  *)
(* the slot of every alias of every port group of every replica.  The      *)
(* clock, address, data and enable wiring of the slots is left out.        *)
emit_cells(cfg) ==
    LET rdef == RamOf(cfg)
        p == emit_ports(cfg)
    IN  [cell  |-> (0..(cfg.repl_port - 1)) \X (0..(cfg.repl_d - 1)),
         ports |-> p.ports,
         oob   |-> p.oob,
         slot  |-> [rp \in 0..(cfg.repl_port - 1) |->
                     [pgi \in DOMAIN rdef.ports |->
                       [pi \in 1..Len(rdef.ports[pgi].val.names) |->
                          IF pi <= Len(p.ports[rp][pgi])
                          THEN emit_slot(cfg, pgi, p.ports[rp][pgi][pi])
                          ELSE [USED |-> FALSE]]]]]

emit(cfg) ==
    /\ emitted' = <<cfg>>
    /\ cells' = <<emit_cells(cfg)>>
    /\ mem_removed' = TRUE

(* The tail of execute. *)
select ==
    /\ pc = "select"
    /\ prev_cfgs' = cfgs
    /\ IF no_valid_mapping(logic_ok, cfgs)
       THEN /\ pc' = "failed"
            /\ error' = "no valid mapping"
            /\ UNCHANGED <<emitted, cells, mem_removed>>
       ELSE /\ pc' = "done"
            /\ error' = error
            /\ IF select_idx(logic_ok, logic_cost, cfgs) = 0
               THEN UNCHANGED <<emitted, cells, mem_removed>>   \* "using FF mapping"
               ELSE emit(cfgs[select_idx(logic_ok, logic_cost, cfgs)])
    /\ UNCHANGED <<lib, mem, cfgs, kind, style, logic_ok, logic_cost>>

Next ==
    \/ MemMapping
    \/ handle_ram_kind
    \/ handle_ram_style
    \/ handle_init
    \/ handle_wr_ports
    \/ handle_rd_ports
    \/ handle_trans
    \/ handle_priority
    \/ handle_rd_init
    \/ handle_rd_arst
    \/ handle_rd_srst
    \/ score_emu_ports
    \/ handle_geom_split
    \/ prune_pre_geom
    \/ handle_geom
    \/ prune_post_geom
    \/ select

-----------------------------------------------------------------------------
(* The explored inputs: memories as Mem::check accepts them and libraries  *)
(* as the parser accepts them.                                             *)

Bits(n, b) == [i \in 1..n |-> b]

MemRdPort(clk_enable, clk, en, addr, wide_log2, data_width, nw) ==
    [clk_enable |-> clk_enable, clk |-> clk, clk_polarity |-> TRUE,
     en |-> en, addr |-> addr, wide_log2 |-> wide_log2,
     init_value |-> Bits(data_width, "x"),
     arst |-> "0", arst_value |-> Bits(data_width, "x"),
     srst |-> "0", srst_value |-> Bits(data_width, "x"),
     ce_over_srst |-> FALSE,
     transparency_mask |-> Bits(nw, FALSE), collision_x_mask |-> Bits(nw, FALSE)]

Mem(width, size, attributes, wr_ports, rd_ports) ==
    [width |-> width, size |-> size, start_offset |-> 0,
     inits |-> << >>, attributes |-> attributes, logic_block |-> FALSE,
     wr_ports |-> wr_ports, rd_ports |-> rd_ports,
     xmux |-> << >>, wr_implies_rd |-> {}, wr_excludes_rd |-> {}]

(* Mem::check, as far as the fields the pipeline reads go. *)
mem_ok(m) ==
    /\ m.width >= 1 /\ m.size >= 1
    /\ \A i \in DOMAIN m.wr_ports :
          LET p == m.wr_ports[i] IN
          /\ Len(p.en) = m.width * Pow2(p.wide_log2)
          /\ Len(p.priority_mask) = Len(m.wr_ports)
          /\ \A j \in DOMAIN m.wr_ports :
                p.priority_mask[j] =>
                    /\ j < i
                    /\ p.clk_enable /\ m.wr_ports[j].clk_enable
                    /\ p.clk = m.wr_ports[j].clk
                    /\ p.clk_polarity = m.wr_ports[j].clk_polarity
    /\ \A i \in DOMAIN m.rd_ports :
          LET p == m.rd_ports[i] IN
          /\ Len(p.init_value) = m.width * Pow2(p.wide_log2)
          /\ Len(p.arst_value) = m.width * Pow2(p.wide_log2)
          /\ Len(p.srst_value) = m.width * Pow2(p.wide_log2)
          /\ Len(p.transparency_mask) = Len(m.wr_ports)
          /\ Len(p.collision_x_mask) = Len(m.wr_ports)
          /\ (~p.clk_enable =>
                /\ p.en = "1" /\ p.arst = "0" /\ p.srst = "0"
                /\ is_fully_undef(p.init_value))
          /\ \A j \in DOMAIN m.wr_ports :
                /\ ~(p.transparency_mask[j] /\ p.collision_x_mask[j])
                /\ (p.transparency_mask[j] \/ p.collision_x_mask[j]) =>
                      /\ p.clk_enable /\ m.wr_ports[j].clk_enable
                      /\ p.clk = m.wr_ports[j].clk
                      /\ p.clk_polarity = m.wr_ports[j].clk_polarity

Addr(prefix) == <<prefix \o "0", prefix \o "1">>

(* One clocked write port of the given width on clock clk. *)
SyncWr(width, clk, nw) ==
    MemWrPort(TRUE, clk, TRUE, Bits(width, "we"), Addr("a"), 0, Bits(nw, FALSE))

WithStyle(ram, name) == [ram EXCEPT !.style = <<Cap(name)>>]

Dims1(cost) == <<Cap(MemoryDimsDef(2, <<1, 2>>, FALSE, "", cost))>>

(* A RAM with a clocked write port group and an asynchronous read group. *)
LutRam(id, knd, cost) ==
    RamDef(id, knd, <<PortGroupDef("Sw", <<"W">>), PortGroupDef("Ar", <<"R">>)>>,
           Dims1(cost))

-----------------------------------------------------------------------------
(* Family 1: RAM kinds, styles and the pass options. *)

KindRams ==
    { LutRam("LUT", "Distributed", 2), LutRam("BRAM", "Block", 3),
      WithStyle(LutRam("SBRAM", "Block", 2), "mystyle"), LutRam("URAM", "Huge", 1) }

KindLibs ==
    { << >> } \cup { <<a>> : a \in KindRams } \cup { <<a, b>> : a \in KindRams, b \in KindRams }

KindOpts ==
    { PassOptions(FALSE, FALSE, FALSE), PassOptions(TRUE, FALSE, FALSE),
      PassOptions(FALSE, TRUE, FALSE), PassOptions(FALSE, FALSE, TRUE) }

KindAttrs ==
    { << >> } \cup
    { ("ram_style" :> v) :
        v \in {"auto", "logic", "distributed", "block", "huge", "1int", "mystyle"} }

KindMems ==
    { [Mem(1, MaxSize, a, <<[SyncWr(1, "clk", 1) EXCEPT !.clk_enable = ce]>>,
           <<MemRdPort(FALSE, "x", "1", Addr("b"), 0, 1, 1)>>)
         EXCEPT !.logic_block = lb] :
        a \in KindAttrs, ce \in BOOLEAN, lb \in {FALSE} } \cup
    { [Mem(1, MaxSize, << >>, <<SyncWr(1, "clk", 1)>>,
           <<MemRdPort(FALSE, "x", "1", Addr("b"), 0, 1, 1)>>)
         EXCEPT !.logic_block = TRUE] }

KindInputs ==
    { [lib |-> Library(l, o), mem |-> m] : l \in KindLibs, o \in KindOpts, m \in KindMems }

-----------------------------------------------------------------------------
(* Family 2: port groups with one or two aliases against memories with up  *)
(* to two write ports and up to two read ports.                            *)

WithRden(port, vals) == [port EXCEPT !.rden = [i \in DOMAIN vals |-> Cap(vals[i])]]

(* A port group of the given kind with n aliases; the synchronous read     *)
(* kinds get `rden any`.                                                   *)
Group(knd, name, n) ==
    LET g == PortGroupDef(knd, SubSeq(<<name, name \o "2">>, 1, n))
    IN  IF knd \in {"Sr", "Srsw"} THEN WithRden(g, <<"Any">>) ELSE g

PortsRams ==
    { RamDef("RAM", "Block", <<Group(k1, "A", n1)>> \o g2, Dims1(2)) :
        k1 \in {"Sw", "Srsw", "Arsw"}, n1 \in 1..2,
        g2 \in { << >> } \cup { <<Group(k2, "B", n2)>> : k2 \in {"Sr", "Ar"}, n2 \in 1..2 } }

PortsWr(nw) ==
    [i \in 1..nw |-> [SyncWr(1, "clk", nw) EXCEPT !.addr = Addr(<<"a", "c">>[i])]]

PortsRdChoices(nw) ==
    { MemRdPort(TRUE, "clk", "re", Addr("a"), 0, 1, nw),
      MemRdPort(TRUE, "clk", "re", Addr("b"), 0, 1, nw),
      MemRdPort(FALSE, "x", "1", Addr("a"), 0, 1, nw) }

PortsMems ==
    UNION { { Mem(1, 2, << >>, PortsWr(nw), rds) :
                rds \in { << >> } \cup { <<r>> : r \in PortsRdChoices(nw) }
                        \cup { <<r1, r2>> : r1 \in PortsRdChoices(nw),
                                            r2 \in PortsRdChoices(nw) } } :
            nw \in 0..2 }

PortsInputs ==
    { [lib |-> Library(<<r>>, NoOptions), mem |-> m] :
        r \in PortsRams, m \in PortsMems }

-----------------------------------------------------------------------------
(* Family 3: wrtrans capabilities against read/write pairs with            *)
(* transparency and collision masks.                                       *)

WithTrans(port, caps) == [port EXCEPT !.wrtrans = caps]

TransCaps ==
    { << >>,
      <<Cap(WrTransDef("Self", "", "New"))>>,
      <<Cap(WrTransDef("Other", "", "New"))>>,
      <<Cap(WrTransDef("Other", "", "Old"))>>,
      <<Cap(WrTransDef("Named", "B", "New"))>>,
      <<Cap(WrTransDef("Named", "A", "Old")), Cap(WrTransDef("Named", "B", "Old"))>>,
      <<Capability(WrTransDef("Other", "", "New"), ("TRANS" :> "new"), NoOpts),
        Capability(WrTransDef("Other", "", "Old"), ("TRANS" :> "old"), NoOpts)>>,
      <<Capability(WrTransDef("Self", "", "New"), NoOpts, ("TRANS" :> "new")),
        Capability(WrTransDef("Self", "", "Old"), NoOpts, ("TRANS" :> "old")),
        Capability(WrTransDef("Other", "", "Old"), NoOpts, NoOpts)>> }

TransRams ==
    { RamDef("RAM", "Block",
             <<WithTrans(Group(k1, "A", 1), t), Group("Sr", "B", 1)>>, Dims1(2)) :
        k1 \in {"Sw", "Srsw"}, t \in TransCaps }

(* A clocked read port with its masks towards the one write port. *)
TransRd(clk, addr, trans, colx) ==
    [MemRdPort(TRUE, clk, "re", Addr(addr), 0, 1, 1) EXCEPT
        !.transparency_mask = <<trans>>, !.collision_x_mask = <<colx>>]

TransRdChoices ==
    { TransRd("clk", a, m[1], m[2]) :
        a \in {"a", "b"}, m \in {<<FALSE, FALSE>>, <<TRUE, FALSE>>, <<FALSE, TRUE>>} }
    \cup { TransRd("clk2", "b", FALSE, FALSE) }

TransMems ==
    { Mem(1, 2, << >>, <<SyncWr(1, "clk", 1)>>, rds) :
        rds \in { <<r>> : r \in TransRdChoices }
                \cup { <<r1, r2>> : r1 \in TransRdChoices, r2 \in TransRdChoices } }

TransInputs ==
    { [lib |-> Library(<<r>>, NoOptions), mem |-> m] : r \in TransRams, m \in TransMems }

-----------------------------------------------------------------------------
(* Family 4: wrprio capabilities against two write ports with a priority   *)
(* relation, with and without a read port.                                 *)

WithPrio(port, names) == [port EXCEPT !.wrprio = [i \in DOMAIN names |-> Cap(names[i])]]

PrioCaps == { << >>, <<"A">>, <<"B">>, <<"R">>, <<"A", "R">> }

(* Write groups A (and B when split), and the read group R. *)
PrioRams ==
    { RamDef("RAM", "Block",
             (IF split
              THEN <<WithPrio(Group("Sw", "A", 1), p1), WithPrio(Group("Sw", "B", 1), p2)>>
              ELSE <<WithPrio(Group("Sw", "A", 2), p2)>>)
             \o <<Group("Ar", "R", 1)>>, Dims1(2)) :
        split \in BOOLEAN, p1 \in {<< >>}, p2 \in PrioCaps }

PrioWr(prio) ==
    <<SyncWr(1, "clk", 2),
      [SyncWr(1, "clk", 2) EXCEPT !.addr = Addr("c"), !.en = Bits(1, "we2"),
                                   !.priority_mask = <<prio, FALSE>>]>>

PrioMems ==
    { Mem(1, 2, << >>, PrioWr(prio), rds) :
        prio \in BOOLEAN,
        rds \in { << >>, <<MemRdPort(FALSE, "x", "1", Addr("b"), 0, 1, 2)>> } }

PrioInputs ==
    { [lib |-> Library(<<r>>, NoOptions), mem |-> m] : r \in PrioRams, m \in PrioMems }

-----------------------------------------------------------------------------
(* Family 5: rdinitval / rdarstval / rdsrstval / rdsrstmode capabilities   *)
(* against one clocked read port with initial, async and sync reset values. *)

RstValCaps ==
    { << >>,
      <<Cap(ResetValDef("Init", "Zero", "")), Cap(ResetValDef("Async", "Zero", "")),
        Cap(ResetValDef("Sync", "Zero", ""))>>,
      <<Cap(ResetValDef("Init", "Named", "INIT")), Cap(ResetValDef("Async", "Named", "ARST")),
        Cap(ResetValDef("Sync", "Named", "SRST"))>>,
      <<Cap(ResetValDef("Sync", "Zero", ""))>>,
      <<Cap(ResetValDef("Init", "None", "")), Cap(ResetValDef("Sync", "None", ""))>>,
      <<Capability(ResetValDef("Async", "Zero", ""), NoOpts, ("RST" :> "async")),
        Capability(ResetValDef("Sync", "Zero", ""), NoOpts, ("RST" :> "sync"))>>,
      <<Cap(ResetValDef("Init", "Named", "RV")), Cap(ResetValDef("Sync", "Named", "RV"))>> }

SrstModeCaps ==
    { << >>, <<Cap("SrstOverEn")>>, <<Cap("EnOverSrst")>>, <<Cap("Any")>>,
      <<Capability("SrstOverEn", ("MODE" :> "srst"), NoOpts),
        Capability("EnOverSrst", ("MODE" :> "en"), NoOpts)>> }

RstGroup(rden, vals, modes) ==
    [WithRden(PortGroupDef("Sr", <<"R">>), rden) EXCEPT
        !.rdrstval = vals, !.rdsrstmode = modes]

RstRams ==
    { RamDef("RAM", "Block",
             <<Group("Sw", "W", 1), RstGroup(<<"Any">>, v, m), Group("Ar", "AR", 1)>>,
             Dims1(2)) : v \in RstValCaps, m \in SrstModeCaps }
    \cup
    { RamDef("RAM", "Block",
             <<Group("Sw", "W", 1), RstGroup(<<"None">>, v, <<Cap("Any")>>)>>, Dims1(2)) :
        v \in RstValCaps }

(* srst is <<srst_value bit, ce_over_srst>>, or << >> without a sync reset *)
RstRd(en, init, arst, srst) ==
    [MemRdPort(TRUE, "clk", en, Addr("b"), 0, 1, 1) EXCEPT
        !.init_value = <<init>>,
        !.arst = IF arst = "x" THEN "0" ELSE "arst",
        !.arst_value = <<arst>>,
        !.srst = IF srst = << >> THEN "0" ELSE "srst",
        !.srst_value = IF srst = << >> THEN <<"x">> ELSE <<srst[1]>>,
        !.ce_over_srst = IF srst = << >> THEN FALSE ELSE srst[2]]

RstMems ==
    { Mem(1, 2, << >>, <<SyncWr(1, "clk", 1)>>, <<RstRd(en, init, arst, srst)>>) :
        en \in {"1", "re"}, init \in {"x", "1"}, arst \in {"x", "0"},
        srst \in { << >>, <<"0", FALSE>>, <<"0", TRUE>>, <<"1", FALSE>> } }

RstInputs ==
    { [lib |-> Library(<<r>>, NoOptions), mem |-> m] : r \in RstRams, m \in RstMems }

-----------------------------------------------------------------------------
(* Family 6: dims, byte and rden alternatives against memories of every    *)
(* width and size within the bounds.                                       *)

GeomDims ==
    { MemoryDimsDef(2, <<1, 2>>, FALSE, "", c) : c \in 1..MaxDimsCost }
    \cup { MemoryDimsDef(1, <<1>>, FALSE, "RES", c) : c \in 1..MaxDimsCost }
    \cup { MemoryDimsDef(2, <<1, 2>>, TRUE, "", 2), MemoryDimsDef(3, <<2, 4>>, FALSE, "RES", 3),
           MemoryDimsDef(3, <<2, 5>>, FALSE, "", 2), MemoryDimsDef(1, <<2>>, FALSE, "", 2) }

GeomDimsLists ==
    { <<Cap(d)>> : d \in GeomDims }
    \cup { <<Cap(MemoryDimsDef(2, <<1, 2>>, FALSE, "", 2)), Cap(d)>> : d \in GeomDims }

WithByte(ram, bytes) == [ram EXCEPT !.byte = [i \in DOMAIN bytes |-> Cap(bytes[i])]]

GeomRams ==
    { WithByte(RamDef("RAM", "Block",
                      <<Group("Sw", "W", 1), WithRden(PortGroupDef("Sr", <<"R">>), rden)>>,
                      d), b) :
        rden \in { <<"Any">>, <<"None", "Any">> }, d \in GeomDimsLists,
        b \in { << >>, <<1>>, <<2>> } }

(* Write enables: one signal for the word, or one per bit. *)
GeomEn(width, per_bit) ==
    [i \in 1..width |-> IF per_bit THEN <<"we0", "we1", "we2", "we3">>[i] ELSE "we"]

GeomMems ==
    { Mem(width, size, << >>,
          <<[SyncWr(width, "clk", 1) EXCEPT !.en = GeomEn(width, per_bit)]>>,
          <<MemRdPort(TRUE, "clk", "re", IF wide = 0 THEN Addr("b") ELSE <<"0", "b1">>,
                      wide, width * Pow2(wide), 1)>>) :
        width \in 1..MaxWidth, size \in 1..MaxSize, wide \in 0..1,
        per_bit \in BOOLEAN }

GeomInputs ==
    { [lib |-> Library(<<r>>, NoOptions), mem |-> m] : r \in GeomRams, m \in GeomMems }

-----------------------------------------------------------------------------
(* Family 7: named clocks against two write ports and a clocked read port  *)
(* in one or two clock domains, of either polarity.                        *)

WithClock(port, caps) == [port EXCEPT !.clock = caps]

NamedClk(knd, name) == Cap(ClockDef(knd, name))

ClkWrCaps ==
    { <<NamedClk("Anyedge", "C")>>, <<NamedClk("Posedge", "C")>>,
      <<NamedClk("Posedge", "C"), NamedClk("Negedge", "C")>>,
      <<NamedClk("Anyedge", "")>> }

ClkRdCaps ==
    { <<NamedClk("Anyedge", "C")>>, <<NamedClk("Posedge", "C")>>,
      <<NamedClk("Negedge", "C")>>, <<NamedClk("Negedge", "D")>> }

ClkRams ==
    { RamDef("RAM", "Block",
             <<WithClock(Group("Sw", "A", 2), w), WithClock(Group("Sr", "R", 1), r)>>,
             Dims1(2)) : w \in ClkWrCaps, r \in ClkRdCaps }

ClkMems ==
    { Mem(1, 2, a,
          <<SyncWr(1, "clk", 2),
            [SyncWr(1, c, 2) EXCEPT !.addr = Addr("c"), !.clk_polarity = p,
                                    !.clk_enable = ce]>>,
          <<[MemRdPort(TRUE, rc, "1", Addr("b"), 0, 1, 2) EXCEPT !.clk_polarity = rp]>>) :
        a \in { << >>, ("ram_style" :> "block") },
        c \in {"clk", "clk2"}, p \in BOOLEAN, ce \in BOOLEAN,
        rc \in {"clk", "clk2"}, rp \in BOOLEAN }

ClkInputs ==
    { [lib |-> Library(<<r>>, NoOptions), mem |-> m] : r \in ClkRams, m \in ClkMems }

-----------------------------------------------------------------------------
(* Family 8: init capabilities, with and without options, against          *)
(* memories with undefined, all-zero and mixed initial contents.           *)

InitCaps ==
    { << >>, <<Cap("Zero")>>, <<Cap("Any")>>, <<Cap("None")>>,
      <<Cap("Zero"), Cap("Any")>>,
      <<Capability("Zero", ("INIT" :> "zero"), NoOpts),
        Capability("Any", ("INIT" :> "any"), NoOpts)>> }

(* The style "s" commits INIT = zero. *)
InitRams ==
    { [[LutRam("LUT", "Distributed", 2) EXCEPT !.init = c] EXCEPT
          !.style = <<Capability("s", ("INIT" :> "zero"), NoOpts)>>] : c \in InitCaps }

InitData ==
    { << >>, <<<<"x", "x">>>>, <<<<"0", "0">>>>, <<<<"0", "x">>>>, <<<<"0", "1">>>>,
      <<<<"x", "x">>, <<"1", "1">>>>, <<<<"0", "0">>, <<"x", "1">>>> }

InitMems ==
    { [Mem(2, 2, a, <<SyncWr(2, "clk", 1)>>,
           <<MemRdPort(FALSE, "x", "1", Addr("b"), 0, 2, 1)>>) EXCEPT !.inits = d] :
        a \in { << >>, ("ram_style" :> "s") }, d \in InitData }

InitInputs ==
    { [lib |-> Library(l, NoOptions), mem |-> m] :
        l \in { <<r>> : r \in InitRams } \cup
              { <<r1, r2>> : r1 \in InitRams, r2 \in InitRams }, m \in InitMems }

-----------------------------------------------------------------------------
(* Family 9: a RAM whose port groups, clocks, read enables, priorities,    *)
(* dimensions, byte widths and port widths each sit under an `option` or   *)
(* `portoption` value, so that some combinations of them conflict.         *)

OptVals == {"a", "b"}

(* The write group A: two aliases under option X = x. *)
OptWrGroup(x, w) ==
    Capability(
        [PortGroupDef("Sw", <<"A", "A2">>) EXCEPT
            !.clock = <<Capability(ClockDef("Anyedge", ""), ("X" :> "a"), ("PX" :> "a")),
                        Capability(ClockDef("Anyedge", ""), ("Y" :> "b"), ("PX" :> "b"))>>,
            !.wrprio = <<Capability("A", ("Y" :> "a"), ("PX" :> "a")),
                         Capability("R", ("X" :> "b"), ("PX" :> "b"))>>,
            !.width = <<Capability(WidthDef(TRUE, << >>, << >>), NoOpts, ("PX" :> w)),
                        Capability(WidthDef(TRUE, << >>, << >>), ("Z" :> w), NoOpts)>>],
        ("X" :> x), NoOpts)

(* The read group R under option Y = y. *)
OptRdGroup(y) ==
    Capability(
        [PortGroupDef("Sr", <<"R">>) EXCEPT
            !.clock = <<Capability(ClockDef("Anyedge", ""), ("X" :> "a"), ("PY" :> "a")),
                        Capability(ClockDef("Posedge", ""), NoOpts, ("PY" :> "b"))>>,
            !.rden = <<Capability("Any", ("Z" :> "a"), ("PY" :> "a")),
                       Capability("None", ("Z" :> "b"), ("PY" :> "b"))>>,
            !.width = <<Capability(WidthDef(TRUE, << >>, << >>), NoOpts, ("PY" :> "a")),
                        Capability(WidthDef(TRUE, << >>, << >>), NoOpts, ("PY" :> "b"))>>],
        ("Y" :> y), NoOpts)

OptRams ==
    { [id |-> "OPT", kind |-> "Block", prune_rom |-> FALSE,
       ports |-> <<OptWrGroup(x, w), OptRdGroup(y)>>,
       dims |-> <<Capability(MemoryDimsDef(2, <<1, 2>>, FALSE, "", 2), ("X" :> d), NoOpts),
                  Capability(MemoryDimsDef(2, <<1, 2>>, FALSE, "", 3), ("Z" :> d), NoOpts)>>,
       byte |-> <<Capability(1, ("Y" :> b), NoOpts)>>,
       init |-> << >>, style |-> << >>] :
        x \in OptVals, y \in OptVals, w \in OptVals, d \in OptVals, b \in OptVals }

OptMems ==
    { Mem(1, 2, << >>, PrioWr(prio),
          <<MemRdPort(TRUE, "clk", en, Addr("b"), 0, 1, 2)>>) :
        prio \in BOOLEAN, en \in {"1", "re"} }

OptInputs ==
    { [lib |-> Library(<<r>>, NoOptions), mem |-> m] : r \in OptRams, m \in OptMems }

-----------------------------------------------------------------------------
(* Family 10: the 8-word by 4-bit ROM with one asynchronous read port and  *)
(* all-ones contents, against one Distributed RAM (abits 3, dbits 4, one   *)
(* Ar port, init any) whose dims cost lies on either side of what the      *)
(* soft-logic mapping costs (32 bits; costs are in units of 1/CostScale).  *)

RomDimsCosts == {2, 59, 60, 61}

RomRam(cost) ==
    [RamDef("LUT", "Distributed", <<PortGroupDef("Ar", <<"R">>)>>,
            <<Cap(MemoryDimsDef(3, <<4>>, FALSE, "", cost))>>) EXCEPT
        !.init = <<Cap("Any")>>]

RomMem ==
    [Mem(4, 8, << >>, << >>,
         <<MemRdPort(FALSE, "x", "1", <<"b0", "b1", "b2">>, 0, 4, 0)>>) EXCEPT
        !.inits = <<Bits(32, "1")>>]

RomInputs ==
    { [lib |-> Library(<<RomRam(c)>>, NoOptions), mem |-> RomMem] : c \in RomDimsCosts }

-----------------------------------------------------------------------------
(* Family 11: a 3-bit word on a RAM of unit width 1 or 2, so that the     *)
(* search of handle_geom sees three units and then two.                    *)

WordRams ==
    { RamDef("RAM", "Block", <<Group("Sw", "W", 1), Group("Sr", "R", 1)>>,
             <<Cap(MemoryDimsDef(1, <<1, 2>>, FALSE, "", c))>>) : c \in 1..MaxDimsCost }

WordMems ==
    { Mem(3, size, << >>, <<SyncWr(3, "clk", 1)>>,
          <<MemRdPort(TRUE, "clk", "re", Addr("b"), 0, 3, 1)>>) : size \in 1..2 }

WordInputs ==
    { [lib |-> Library(<<r>>, NoOptions), mem |-> m] : r \in WordRams, m \in WordMems }

-----------------------------------------------------------------------------
(* Family 12: a read port that may share the port of the write port: a    *)
(* read/write group of kind Srsw with each read-enable capability, or of   *)
(* kind Arsw, against read ports with equal and different address, clock   *)
(* and polarity and every consistent answer of the two enable queries.     *)

ShareRdens ==
    { <<"None">>, <<"Any">>, <<"WriteImplies">>, <<"WriteExcludes">>,
      <<"None", "Any", "WriteImplies", "WriteExcludes">> }

ShareRams ==
    { RamDef("RAM", "Block",
             <<WithRden(PortGroupDef("Srsw", <<"A">>), e), Group("Ar", "R", 1)>>,
             Dims1(2)) : e \in ShareRdens }
    \cup { RamDef("RAM", "Block", <<Group("Arsw", "A", 1), Group("Ar", "R", 1)>>, Dims1(2)) }

(* [en, implies, excludes]: what the SAT queries can answer for the enable. *)
ShareEnables ==
    { <<"1", TRUE, FALSE>>, <<"re", FALSE, FALSE>>, <<"re", TRUE, FALSE>>,
      <<"re", FALSE, TRUE>> }

ShareRd(clk_enable, clk, pol, en, addr) ==
    [MemRdPort(clk_enable, clk, en, Addr(addr), 0, 1, 1) EXCEPT !.clk_polarity = pol]

ShareRdChoices ==
    { [port |-> ShareRd(TRUE, clk, pol, q[1], a), implies |-> q[2], excludes |-> q[3]] :
        clk \in {"clk", "clk2"}, pol \in BOOLEAN, a \in {"a", "b"}, q \in ShareEnables }
    \cup { [port |-> ShareRd(FALSE, "x", TRUE, "1", a), implies |-> TRUE,
            excludes |-> FALSE] : a \in {"a", "b"} }

(* The memory with read port r, followed (when two) by a second read port  *)
(* that could share the write port as well.                                *)
ShareMem(r, two) ==
    [Mem(1, 2, << >>, <<SyncWr(1, "clk", 1)>>,
         <<r.port>> \o (IF two THEN <<ShareRd(TRUE, "clk", TRUE, "re", "a")>> ELSE << >>))
     EXCEPT !.wr_implies_rd = IF r.implies THEN {<<1, 1>>} ELSE {},
            !.wr_excludes_rd = IF r.excludes THEN {<<1, 1>>} ELSE {}]

ShareMems == { ShareMem(r, two) : r \in ShareRdChoices, two \in BOOLEAN }

ShareInputs ==
    { [lib |-> Library(<<r>>, NoOptions), mem |-> m] : r \in ShareRams, m \in ShareMems }

-----------------------------------------------------------------------------
(* Family 13: memories that must go to a block RAM (ram_style = "block"),  *)
(* so that the best candidate is emitted: two write and two read ports on  *)
(* a RAM that needs a replica per read port, a read port of width 1, 2 or  *)
(* 4 words that shares the only port of the RAM with a one-word write      *)
(* port, and port groups with a width list of their own.                   *)

WithWidth(port, defs) == [port EXCEPT !.width = [i \in DOMAIN defs |-> Cap(defs[i])]]

EmitWideDims == <<Cap(MemoryDimsDef(3, <<1, 2, 4>>, FALSE, "", 2))>>

EmitReplRam ==
    RamDef("RAM", "Block",
           <<Group("Arsw", "A", 2), Group("Sw", "B", 1), Group("Sr", "C", 2)>>, Dims1(2))

EmitReplMems ==
    { Mem(3, 2, ("ram_style" :> "block"),
          [i \in 1..2 |-> [SyncWr(3, "clk", 2) EXCEPT !.addr = Addr(<<"a", "c">>[i])]],
          <<r1, r2>>) :
        r1 \in { MemRdPort(FALSE, "x", "1", Addr("b"), 0, 3, 2) },
        r2 \in { MemRdPort(FALSE, "x", "1", Addr("d"), 0, 3, 2),
                 MemRdPort(TRUE, "clk", "re", Addr("d"), 0, 3, 2) } }

EmitSelfOld == <<Cap(WrTransDef("Self", "", "Old"))>>

EmitSharedGroups ==
    { Group("Arsw", "A", 1), WithTrans(Group("Srsw", "A", 1), EmitSelfOld) }
    \cup { WithWidth(WithTrans(Group("Srsw", "A", 1), EmitSelfOld), <<w>>) :
             w \in { WidthDef(FALSE, <<1, 2, 4>>, <<1, 2, 4>>),
                     WidthDef(TRUE, <<2, 4>>, << >>) } }

EmitSharedRams ==
    { WithByte(RamDef("RAM", "Block", <<g>>, EmitWideDims), b) :
        g \in EmitSharedGroups, b \in { << >>, <<1>> } }

EmitWideAddr == <<Addr("a"), <<"0", "a1">>, <<"0", "0">>>>

EmitSharedMems ==
    { Mem(1, size, ("ram_style" :> "block"), <<SyncWr(1, "clk", 1)>>,
          <<MemRdPort(TRUE, "clk", "re", EmitWideAddr[wide + 1], wide, Pow2(wide), 1)>>) :
        size \in 1..2, wide \in 0..2 }

EmitWidthRams ==
    { RamDef("RAM", "Block",
             <<Group("Sw", "W", 1), WithWidth(Group("Sr", "R", 1), <<w>>)>>, Dims1(2)) :
        w \in { WidthDef(TRUE, <<2>>, << >>), WidthDef(TRUE, <<1>>, << >>),
                WidthDef(TRUE, << >>, << >>) } }

EmitWidthMems ==
    { Mem(width, 2, ("ram_style" :> "block"), <<SyncWr(width, "clk", 1)>>,
          <<MemRdPort(TRUE, "clk", "re", Addr("b"), 0, width, 1)>>) : width \in 1..2 }

EmitInputs ==
    { [lib |-> Library(<<EmitReplRam>>, NoOptions), mem |-> m] : m \in EmitReplMems }
    \cup { [lib |-> Library(<<r>>, NoOptions), mem |-> m] :
             r \in EmitSharedRams, m \in EmitSharedMems }
    \cup { [lib |-> Library(<<r>>, NoOptions), mem |-> m] :
             r \in EmitWidthRams, m \in EmitWidthMems }

-----------------------------------------------------------------------------
(* The specification. *)

AllInputs ==
    KindInputs \cup PortsInputs \cup TransInputs \cup PrioInputs \cup RstInputs
    \cup GeomInputs \cup ClkInputs \cup InitInputs
    \cup OptInputs \cup RomInputs \cup WordInputs
    \cup ShareInputs \cup EmitInputs

(* The inputs the parser and Mem::check accept. *)
Inputs == { inp \in AllInputs : library_ok(inp.lib) /\ mem_ok(inp.mem) }

Init ==
    /\ \E inp \in Inputs :
          /\ lib = inp.lib
          /\ mem = inp.mem
    /\ pc = "MemMapping"
    /\ cfgs = << >>
    /\ prev_cfgs = << >>
    /\ kind = "Auto"
    /\ style = ""
    /\ logic_ok = FALSE
    /\ logic_cost = 0
    /\ error = "none"
    /\ emitted = << >>
    /\ cells = << >>
    /\ mem_removed = FALSE

Spec == Init /\ [][Next]_vars

-----------------------------------------------------------------------------
(* Properties. *)

(* A wrprio capability of the port group bound to w2 that names the first  *)
(* alias of the port group bound to w1 is applied to cfg.                  *)
prio_cap_applied(cfg, w1, w2) ==
    LET p1def == RamOf(cfg).ports[cfg.wr_ports[w1].port_def]
        p2def == RamOf(cfg).ports[cfg.wr_ports[w2].port_def]
    IN  \E t \in DOMAIN p2def.val.wrprio :
            /\ p2def.val.wrprio[t].val = p1def.val.names[1]
            /\ wrport_opts_applied(cfg, w2, p2def.val.wrprio[t])

(* C1: in every candidate that leaves handle_priority, every pair of write *)
(* ports (w1, w2) with w2.priority_mask[w1] either has a wrprio capability  *)
(* of w2's port group naming w1's port group applied, or w1 is in w2's     *)
(* emu_prio.  The code looks w1 up in cfg.rd_ports, so the capability it   *)
(* matches names the port group of a read port: the property fails.        *)
C1_PriorityUpheld ==
    pc = "handle_rd_init" =>
        \A c \in DOMAIN cfgs : \A w1 \in DOMAIN mem.wr_ports : \A w2 \in DOMAIN mem.wr_ports :
            mem.wr_ports[w2].priority_mask[w1] =>
                \/ prio_cap_applied(cfgs[c], w1, w2)
                \/ \E k \in DOMAIN cfgs[c].wr_ports[w2].emu_prio :
                      cfgs[c].wr_ports[w2].emu_prio[k] = w1


(* C2: after prune_pre_geom no two surviving candidates share the geometry *)
(* key, and every key of the input keeps a survivor with the lowest        *)
(* score_emu of that key.  The code leaves the earlier, higher-scored      *)
(* candidate in place when a later one scores lower: the property fails.   *)
C2_PreGeomUnique ==
    pc = "handle_geom" =>
        /\ \A i \in DOMAIN cfgs : \A j \in DOMAIN cfgs :
              i # j => ~same_geom(cfgs[i], cfgs[j])
        /\ \A i \in DOMAIN prev_cfgs : \E j \in DOMAIN cfgs :
              /\ same_geom(cfgs[j], prev_cfgs[i])
              /\ cfgs[j].score_emu <= prev_cfgs[i].score_emu

(* C3: the candidate handed to emit has the minimal cost of the surviving  *)
(* candidates and, when soft logic is feasible, a cost below width*size;   *)
(* when soft logic is feasible and wins (or there is no candidate) nothing *)
(* is emitted.  `best` is an int, so a cost with a fraction is truncated   *)
(* and a later, cheaper candidate is not taken: the property fails.        *)
C3_LowestCostWins ==
    pc = "done" =>
        /\ emitted # << >> =>
              /\ \A i \in DOMAIN cfgs : emitted[1].cost <= cfgs[i].cost
              /\ logic_ok => emitted[1].cost < logic_cost
        /\ emitted = << >> =>
              /\ logic_ok
              /\ \A i \in DOMAIN cfgs : cfgs[i].cost >= logic_cost

(* The library entry of cfg has a kind the pass options disable. *)
kind_disabled(cfg) ==
    \/ RamOf(cfg).kind = "Distributed" /\ lib.opts.no_auto_distributed
    \/ RamOf(cfg).kind = "Block" /\ lib.opts.no_auto_block
    \/ RamOf(cfg).kind = "Huge" /\ lib.opts.no_auto_huge

(* C4: with no named style and kind Auto or NotLogic, no candidate that    *)
(* leaves handle_ram_kind has a kind disabled by no_auto_*.  The code      *)
(* tests the requested kind instead of the entry's kind: the property      *)
(* fails.                                                                  *)
C4_NoAutoRespected ==
    (pc = "handle_ram_style" /\ style = "" /\ kind \in {"Auto", "NotLogic"}) =>
        \A i \in DOMAIN cfgs : ~kind_disabled(cfgs[i])

(* out is a fork of candidate in: same library entry, same port binding. *)
derived_from(out, in) ==
    /\ out.ram_def = in.ram_def
    /\ out.emu_read_first = in.emu_read_first
    /\ \A p \in DOMAIN in.wr_ports :
          /\ out.wr_ports[p].port_def = in.wr_ports[p].port_def
          /\ out.wr_ports[p].rd_port = in.wr_ports[p].rd_port
    /\ \A p \in DOMAIN in.rd_ports :
          /\ out.rd_ports[p].port_def = in.rd_ports[p].port_def
          /\ out.rd_ports[p].wr_port = in.rd_ports[p].wr_port
          /\ out.rd_ports[p].emu_trans = in.rd_ports[p].emu_trans

(* C5: handle_priority, handle_rd_init, handle_rd_arst and handle_rd_srst  *)
(* output at least one candidate derived from every input candidate.       *)
(* handle_rd_srst drops a candidate whose port group has a free rdsrstval  *)
(* capability but no applicable rdsrstmode when the read enable is in use: *)
(* the property fails.                                                     *)
C5_NoCandidateLost ==
    pc \in {"handle_rd_init", "handle_rd_arst", "handle_rd_srst", "score_emu_ports"} =>
        \A i \in DOMAIN prev_cfgs : \E j \in DOMAIN cfgs :
            derived_from(cfgs[j], prev_cfgs[i])


(* A wrtrans capability of w's port group with matching target and a kind  *)
(* other than Old is applied to cfg.                                       *)
trans_cap_applied(cfg, r, w) ==
    LET wpdef == RamOf(cfg).ports[cfg.wr_ports[w].port_def]
    IN  \E t \in DOMAIN wpdef.val.wrtrans :
            /\ trans_target_matches(cfg, wpdef.val.wrtrans[t], r, w)
            /\ wpdef.val.wrtrans[t].val.kind # "Old"
            /\ wrport_opts_applied(cfg, w, wpdef.val.wrtrans[t])

(* r and w are clocked on the same clock edge and r is transparent to w. *)
transparent_pair(r, w) ==
    /\ mem.rd_ports[r].clk_enable /\ mem.wr_ports[w].clk_enable
    /\ mem.rd_ports[r].clk = mem.wr_ports[w].clk
    /\ mem.rd_ports[r].clk_polarity = mem.wr_ports[w].clk_polarity
    /\ mem.rd_ports[r].transparency_mask[w]

in_emu_trans(cfg, r, w) ==
    \E k \in DOMAIN cfg.rd_ports[r].emu_trans : cfg.rd_ports[r].emu_trans[k] = w

(* C6: in every candidate that leaves handle_trans, every transparent pair *)
(* (r, w) on one clock has a wrtrans capability (matching target, kind not *)
(* Old) applied, or w in r's emu_trans, or emu_read_first set.             *)
C6_TransparencyUpheld ==
    pc = "handle_priority" =>
        \A c \in DOMAIN cfgs : \A r \in DOMAIN mem.rd_ports : \A w \in DOMAIN mem.wr_ports :
            transparent_pair(r, w) =>
                \/ trans_cap_applied(cfgs[c], r, w)
                \/ in_emu_trans(cfgs[c], r, w)
                \/ cfgs[c].emu_read_first

(* A transparent pair served by a capability alone, next to a candidate    *)
(* that emulates the same pair.                                            *)
C6_Witness ==
    /\ pc = "handle_priority"
    /\ \E r \in DOMAIN mem.rd_ports : \E w \in DOMAIN mem.wr_ports :
          /\ transparent_pair(r, w)
          /\ \E c \in DOMAIN cfgs :
                /\ trans_cap_applied(cfgs[c], r, w)
                /\ ~in_emu_trans(cfgs[c], r, w)
                /\ ~cfgs[c].emu_read_first
                /\ cfgs[c].opts # NoOpts
          /\ \E c \in DOMAIN cfgs :
                in_emu_trans(cfgs[c], r, w) /\ ~trans_cap_applied(cfgs[c], r, w)

(* The input candidates of prune_post_geom in the resource group of cfg. *)
same_resource(cs, cfg) == { i \in DOMAIN cs : resource_key(cs[i]) = resource_key(cfg) }

(* The earliest candidate of lowest cost in the resource group of cfg. *)
cheapest_of_group(cs, cfg) ==
    CHOOSE i \in same_resource(cs, cfg) :
        \A k \in same_resource(cs, cfg) :
            cs[i].cost < cs[k].cost \/ (cs[i].cost = cs[k].cost /\ i <= k)

(* C7: after prune_post_geom every resource group of the input has exactly *)
(* one survivor, the earliest of its candidates of lowest cost.            *)
C7_PostGeomOnePerGroup ==
    pc = "select" /\ error = "none" /\ kind # "Logic" =>
        /\ \A i \in DOMAIN cfgs : \A j \in DOMAIN cfgs :
              i # j => resource_key(cfgs[i]) # resource_key(cfgs[j])
        /\ \A i \in DOMAIN prev_cfgs : \E j \in DOMAIN cfgs :
              /\ resource_key(cfgs[j]) = resource_key(prev_cfgs[i])
              /\ cfgs[j] = prev_cfgs[cheapest_of_group(prev_cfgs, prev_cfgs[i])]
        /\ \A j \in DOMAIN cfgs : \E i \in DOMAIN prev_cfgs : cfgs[j] = prev_cfgs[i]

(* A later candidate of a group that is cheaper than an earlier one, and   *)
(* two groups surviving.                                                   *)
C7_Witness ==
    /\ pc = "select" /\ kind # "Logic"
    /\ Len(cfgs) >= 2
    /\ \E i \in DOMAIN prev_cfgs : \E j \in DOMAIN prev_cfgs :
          /\ i < j
          /\ resource_key(prev_cfgs[i]) = resource_key(prev_cfgs[j])
          /\ prev_cfgs[j].cost < prev_cfgs[i].cost


(* The aliases of port group i of the library entry of cfg. *)
aliases(cfg, i) == Len(RamOf(cfg).ports[i].val.names)

(* The source write ports and the unshared source read ports on group i. *)
wr_usage(cfg, i) == Cardinality({ p \in DOMAIN cfg.wr_ports : cfg.wr_ports[p].port_def = i })

unshared_rd_usage(cfg, i) ==
    Cardinality({ p \in DOMAIN cfg.rd_ports :
                    cfg.rd_ports[p].wr_port = 0 /\ cfg.rd_ports[p].port_def = i })

(* One port_def per source port, and no port group over-subscribed. *)
ports_bound(cfg) ==
    /\ DOMAIN cfg.wr_ports = DOMAIN mem.wr_ports
    /\ DOMAIN cfg.rd_ports = DOMAIN mem.rd_ports
    /\ \A p \in DOMAIN cfg.wr_ports : cfg.wr_ports[p].port_def \in DOMAIN RamOf(cfg).ports
    /\ \A p \in DOMAIN cfg.rd_ports : cfg.rd_ports[p].port_def \in DOMAIN RamOf(cfg).ports
    /\ \A i \in DOMAIN RamOf(cfg).ports :
          /\ wr_usage(cfg, i) <= aliases(cfg, i)
          /\ unshared_rd_usage(cfg, i) > 0 => wr_usage(cfg, i) < aliases(cfg, i)

(* C8: every candidate that leaves handle_rd_ports has one port_def per    *)
(* source port, no port group has more write ports than aliases, a group   *)
(* with an unshared read port has an alias free of write ports; once       *)
(* score_emu_ports has run, wr_usage + unshared_rd_usage <= aliases *      *)
(* repl_port, and its log_asserts on `space` never fail.                   *)
C8_PortsNotOversubscribed ==
    /\ After("handle_rd_ports") => \A c \in DOMAIN cfgs : ports_bound(cfgs[c])
    /\ After("score_emu_ports") =>
          \A c \in DOMAIN cfgs : \A i \in DOMAIN RamOf(cfgs[c]).ports :
              wr_usage(cfgs[c], i) + unshared_rd_usage(cfgs[c], i)
                  <= aliases(cfgs[c], i) * cfgs[c].repl_port
    /\ error # "log_assert(space)"

(* A candidate with a write port and two unshared read ports on one group  *)
(* of two aliases, which takes two replicas.                               *)
C8_Witness ==
    /\ pc = "handle_geom_split"
    /\ \E c \in DOMAIN cfgs : \E i \in DOMAIN RamOf(cfgs[c]).ports :
          /\ wr_usage(cfgs[c], i) = 1
          /\ unshared_rd_usage(cfgs[c], i) = 2
          /\ aliases(cfgs[c], i) = 2
          /\ cfgs[c].repl_port = 2

(* Some library entry offers the style tag (the accumulated options are    *)
(* empty at this stage, so every tag's options are admissible).            *)
style_offered ==
    \E i \in DOMAIN lib.ram_defs : \E t \in DOMAIN lib.ram_defs[i].style :
        lib.ram_defs[i].style[t].val = style

(* C9: handle_ram_style fails hard exactly when a named style is set and   *)
(* no library entry offers it; handle_ram_kind fails hard exactly when no  *)
(* style is set, the kind is Distributed, Block, Huge or NotLogic and no    *)
(* candidate survives; with kind Auto an empty result goes on.             *)
C9_HardErrors ==
    /\ error = "no available RAMs with style" =>
          pc = "failed" /\ style # "" /\ ~style_offered /\ cfgs = << >>
    /\ (pc = "handle_init" /\ style # "") => style_offered /\ cfgs # << >>
    /\ error = "no available RAMs" =>
          /\ pc = "failed" /\ style = "" /\ cfgs = << >>
          /\ kind \in {"Distributed", "Block", "Huge", "NotLogic"}
    /\ (pc = "handle_ram_style" /\ style = "" /\ cfgs = << >>) => kind = "Auto"

(* The named style no entry offers, with entries of other styles present. *)
C9_Witness ==
    /\ pc = "failed"
    /\ error = "no available RAMs with style"
    /\ lib.ram_defs # << >>

(* C10: "no valid mapping" is reported exactly when the final candidate    *)
(* set is empty and soft logic is not feasible; then nothing has been      *)
(* emitted and the memory has not been removed.                            *)
C10_NoValidMapping ==
    /\ error = "no valid mapping" =>
          /\ pc = "failed" /\ cfgs = << >> /\ ~logic_ok
          /\ emitted = << >> /\ ~mem_removed
    /\ pc = "done" => ~(cfgs = << >> /\ ~logic_ok)

(* The error after the whole constructor ran on a non-empty library. *)
C10_Witness ==
    /\ error = "no valid mapping"
    /\ lib.ram_defs # << >>
    /\ kind \in {"Distributed", "Block", "Huge", "NotLogic"}

(* C11: logic_ok is true iff the resolved kind is Auto or Logic and either *)
(* the memory has no write ports or every write port is clocked with the   *)
(* clock and polarity of write port 0; the soft-logic cost is width*size.  *)
C11_LogicOk ==
    pc # "MemMapping" =>
        /\ logic_ok <=>
              /\ kind \in {"Auto", "Logic"}
              /\ \/ Len(mem.wr_ports) = 0
                 \/ \A i \in 1..Len(mem.wr_ports) :
                       /\ mem.wr_ports[i].clk_enable
                       /\ <<mem.wr_ports[i].clk, mem.wr_ports[i].clk_polarity>> =
                          <<mem.wr_ports[1].clk, mem.wr_ports[1].clk_polarity>>
        /\ logic_cost = mem.width * mem.size * CostScale

(* Soft logic refused only because two clocked write ports on one clock    *)
(* differ in polarity.                                                     *)
C11_Witness ==
    /\ pc # "MemMapping"
    /\ kind = "Auto" /\ ~logic_ok
    /\ Len(mem.wr_ports) = 2
    /\ \A i \in 1..2 : mem.wr_ports[i].clk_enable /\ mem.wr_ports[i].clk = "clk"
    /\ mem.wr_ports[1].clk_polarity # mem.wr_ports[2].clk_polarity

(* An init capability of one of the given kinds of the candidate's RAM is  *)
(* applied to the candidate.                                               *)
init_cap_applied(cfg, kinds) ==
    \E t \in DOMAIN RamOf(cfg).init :
        /\ RamOf(cfg).init[t].val \in kinds
        /\ opts_applied(cfg.opts, RamOf(cfg).init[t].opts)

(* The candidates as the code holds them: without the history field. *)
without_caps(cs) == [i \in DOMAIN cs |-> [cs[i] EXCEPT !.caps = << >>]]

(* Every RAM of the library has the option-free `init zero` and no other   *)
(* init capability.                                                        *)
only_init_zero ==
    \A r \in DOMAIN lib.ram_defs : lib.ram_defs[r].init = <<Cap("Zero")>>

(* C12: without a defined init bit handle_init leaves the candidates as    *)
(* they are; with defined bits but no 1 every survivor applied an init     *)
(* capability Any or Zero; with a 1 bit every survivor applied init Any.   *)
(* With only `init zero` in the library an all-zero init keeps every       *)
(* candidate and an init with a 1 bit removes every candidate.             *)
C12_InitFilter ==
    pc = "handle_wr_ports" =>
        LET nonx == \E i \in DOMAIN mem.inits : \E b \in DOMAIN mem.inits[i] :
                        mem.inits[i][b] \in {"0", "1"}
            one  == \E i \in DOMAIN mem.inits : \E b \in DOMAIN mem.inits[i] :
                        mem.inits[i][b] = "1"
        IN  /\ ~nonx => cfgs = prev_cfgs
            /\ (nonx /\ ~one) =>
                  \A c \in DOMAIN cfgs : init_cap_applied(cfgs[c], {"Any", "Zero"})
            /\ one => \A c \in DOMAIN cfgs : init_cap_applied(cfgs[c], {"Any"})
            /\ (only_init_zero /\ nonx /\ ~one) =>
                  without_caps(cfgs) = without_caps(prev_cfgs)
            /\ (only_init_zero /\ one) => cfgs = << >>

(* handle_init removed a candidate whose only init capability is Zero      *)
(* because the contents have a 1 bit.                                      *)
C12_Witness ==
    /\ pc = "handle_wr_ports"
    /\ only_init_zero
    /\ prev_cfgs # << >> /\ cfgs = << >>
    /\ \E i \in DOMAIN mem.inits : \E b \in DOMAIN mem.inits[i] : mem.inits[i][b] = "1"
    /\ \E i \in DOMAIN mem.inits : \E b \in DOMAIN mem.inits[i] : mem.inits[i][b] = "0"

(* The memory has a write port that is not clocked. *)
has_async_wr == \E i \in DOMAIN mem.wr_ports : ~mem.wr_ports[i].clk_enable

(* C13: a memory with an asynchronous write port is never mapped to a      *)
(* library cell: the candidate set is empty from handle_wr_ports on, no    *)
(* candidate is emitted, and the run ends in FF mapping when soft logic is *)
(* feasible and in a hard error otherwise.                                 *)
C13_AsyncWriteRejected ==
    has_async_wr =>
        /\ After("handle_wr_ports") => cfgs = << >>
        /\ emitted = << >> /\ ~mem_removed
        /\ pc = "done" => logic_ok
        /\ (pc = "failed" /\ After("handle_wr_ports")) => error = "no valid mapping"
        /\ (pc = "select" /\ ~logic_ok) => ENABLED (select /\ pc' = "failed")

(* handle_wr_ports emptied a non-empty candidate set because the second    *)
(* write port is asynchronous, the first one being clocked.                *)
C13_Witness ==
    /\ pc = "handle_rd_ports"
    /\ Len(mem.wr_ports) = 2
    /\ mem.wr_ports[1].clk_enable /\ ~mem.wr_ports[2].clk_enable
    /\ prev_cfgs # << >> /\ cfgs = << >>

(* The number of read ports of cfg that satisfy P. *)
rd_count(cfg, P(_)) == Cardinality({ r \in DOMAIN cfg.rd_ports : P(cfg.rd_ports[r]) })

(* The table of emulation points. *)
emu_points(cfg) ==
    (IF cfg.emu_read_first THEN 3 * Len(mem.wr_ports) ELSE 0)
    + SumSeq([w \in DOMAIN cfg.wr_ports |-> Len(cfg.wr_ports[w].emu_prio)])
    + 3 * SumSeq([r \in DOMAIN cfg.rd_ports |-> Len(cfg.rd_ports[r].emu_trans)])
    + 3 * rd_count(cfg, LAMBDA p : p.emu_en)
    + 2 * rd_count(cfg, LAMBDA p : p.emu_init)
    + 2 * rd_count(cfg, LAMBDA p : p.emu_arst)
    + 2 * rd_count(cfg, LAMBDA p : p.emu_srst)
    + rd_count(cfg, LAMBDA p : p.emu_srst_en_prio)
    + rd_count(cfg, LAMBDA p : p.wr_port = 0)

(* C14: the score_emu that score_emu_ports stores is 3 per write port      *)
(* under emu_read_first, 1 per emu_prio entry, 3 per emu_trans entry, 3    *)
(* per read port with emu_en, 2 per read port for each of emu_init,        *)
(* emu_arst and emu_srst, 1 per read port with emu_srst_en_prio and 1 per  *)
(* unshared read port; emu_sync adds nothing.                              *)
C14_ScoreEmu ==
    pc = "handle_geom_split" =>
        \A c \in DOMAIN cfgs : cfgs[c].score_emu = emu_points(cfgs[c])

(* A scored candidate whose read port is emulated on an asynchronous port  *)
(* and carries soft transparency logic.                                    *)
C14_Witness ==
    /\ pc = "handle_geom_split"
    /\ \E c \in DOMAIN cfgs : \E r \in DOMAIN cfgs[c].rd_ports :
          /\ cfgs[c].rd_ports[r].emu_sync
          /\ cfgs[c].rd_ports[r].emu_trans # << >>
          /\ cfgs[c].score_emu >= 4

(* The effective byte width that goes with the unit width stored in cfg. *)
stored_effective_byte(cfg) ==
    LET unit_width == RamOf(cfg).dims[cfg.dims_def].val.dbits[cfg.unit_width_log2 + 1]
    IN  IF Len(mem.wr_ports) = 0 THEN 1
        ELSE IF cfg.byte = 0 THEN unit_width
        ELSE Min(cfg.byte, unit_width)

(* C15: after handle_geom the swizzle of every candidate has a length that *)
(* is a positive multiple of the effective byte width of the chosen unit   *)
(* width, and repl_d and repl_port are at least 1.                         *)
C15_GeomShape ==
    pc = "prune_post_geom" =>
        \A c \in DOMAIN cfgs :
            /\ Len(cfgs[c].swizzle) > 0
            /\ Len(cfgs[c].swizzle) % stored_effective_byte(cfgs[c]) = 0
            /\ cfgs[c].repl_d >= 1
            /\ cfgs[c].repl_port >= 1

(* A candidate after handle_geom whose swizzle was padded and whose data   *)
(* is replicated.                                                          *)
C15_Witness ==
    /\ pc = "prune_post_geom"
    /\ \E c \in DOMAIN cfgs :
          /\ -1 \in Range(cfgs[c].swizzle)
          /\ cfgs[c].repl_d >= 2


(* The source port and the port configuration behind a history entry. *)
cap_src_port(b) ==
    IF b.side = "wr" THEN mem.wr_ports[b.pidx] ELSE mem.rd_ports[b.pidx]

cap_port_cfg(cfg, b) ==
    IF b.side = "wr" THEN cfg.wr_ports[b.pidx] ELSE cfg.rd_ports[b.pidx]

(* The named-clock entries of the history of cfg. *)
named_clock_caps(cfg) ==
    { i \in DOMAIN cfg.caps : cfg.caps[i].what = "clock" /\ cfg.caps[i].name # "" }

(* The entry of the clock name of b is what the port of b drives. *)
clock_drives(cfg, b) ==
    LET port == cap_src_port(b)
        knd  == cap_port_cfg(cfg, b).clkpol_kind
    IN  IF knd = "Anyedge"
        THEN /\ b.name \in DOMAIN cfg.clocks_anyedge
             /\ b.name \notin DOMAIN cfg.clocks_pnedge
             /\ cfg.clocks_anyedge[b.name] = <<port.clk, port.clk_polarity>>
        ELSE /\ b.name \in DOMAIN cfg.clocks_pnedge
             /\ b.name \notin DOMAIN cfg.clocks_anyedge
             /\ cfg.clocks_pnedge[b.name] =
                    <<port.clk, (port.clk_polarity # (knd = "Posedge"))>>

(* A second binding of a bound name leaves cfg alone and succeeds exactly  *)
(* when it repeats the entry.                                              *)
clock_rebind_checked(cfg) ==
    \A knd \in {"Anyedge", "Posedge", "Negedge"}, clk \in {"clk", "clk2"},
       pol \in BOOLEAN :
        LET map == IF knd = "Anyedge" THEN cfg.clocks_anyedge ELSE cfg.clocks_pnedge
            val == IF knd = "Anyedge" THEN <<clk, pol>>
                   ELSE <<clk, (pol # (knd = "Posedge"))>>
        IN  \A name \in DOMAIN map :
                LET r == apply_clock(cfg, ClockDef(knd, name), clk, pol)
                IN  r.cfg = cfg /\ (r.ok <=> map[name] = val)

(* C16: in every candidate each clock name has exactly one entry, and      *)
(* every port whose chosen clock capability carries the name drives it     *)
(* with the signal of the entry and, for anyedge, its polarity or, for     *)
(* posedge/negedge, its flip (source polarity XOR definition is posedge);  *)
(* apply_clock refuses a differing second binding and never overwrites.    *)
C16_NamedClock ==
    \A c \in DOMAIN cfgs :
        /\ \A i \in named_clock_caps(cfgs[c]) : clock_drives(cfgs[c], cfgs[c].caps[i])
        /\ clock_rebind_checked(cfgs[c])

(* A candidate in which two ports of opposite source polarity share a      *)
(* named clock, one through a posedge and one through a negedge            *)
(* capability.                                                             *)
C16_Witness ==
    /\ After("handle_rd_ports")
    /\ \E c \in DOMAIN cfgs :
          \E i \in named_clock_caps(cfgs[c]), j \in named_clock_caps(cfgs[c]) :
              LET a == cfgs[c].caps[i]
                  b == cfgs[c].caps[j]
              IN  /\ a.name = b.name
                  /\ cap_port_cfg(cfgs[c], a).clkpol_kind = "Posedge"
                  /\ cap_port_cfg(cfgs[c], b).clkpol_kind = "Negedge"
                  /\ cap_src_port(a).clk_polarity # cap_src_port(b).clk_polarity


(* The portopts that took the port options of history entry b. *)
cap_portopts(cfg, b) ==
    CASE b.side = "wr" -> cfg.wr_ports[b.pidx].portopts
      [] b.side = "rd" -> cfg.rd_ports[b.pidx].portopts
      [] OTHER         -> NoOpts

(* Every option of b is in cfg with the value b asks for. *)
cap_committed(cfg, b) ==
    /\ opts_applied(cfg.opts, b.opts)
    /\ b.side # "none" => opts_applied(cap_portopts(cfg, b), b.portopts)

(* The option keys that the history of cfg accounts for. *)
cap_keys(cfg) == UNION { DOMAIN cfg.caps[i].opts : i \in DOMAIN cfg.caps }

port_cap_keys(cfg, side, pidx) ==
    UNION { DOMAIN cfg.caps[i].portopts :
              i \in { j \in DOMAIN cfg.caps :
                        cfg.caps[j].side = side /\ cfg.caps[j].pidx = pidx } }

(* C17: at every stage, in every surviving candidate, every option of      *)
(* every capability bound so far (style, init, port group, clock, rden,    *)
(* wrtrans, wrprio, rdrstval, rdsrstmode, dims, byte, width) is in         *)
(* cfg.opts with the capability's value and every port option of it is in  *)
(* the portopts of the port it was bound for (the write port's for a       *)
(* shared read port); and no option is committed that no bound capability  *)
(* asked for, so a rejected alternative leaves nothing behind.             *)
C17_OptionsConsistent ==
    \A c \in DOMAIN cfgs :
        LET cfg == cfgs[c] IN
        /\ \A i \in DOMAIN cfg.caps : cap_committed(cfg, cfg.caps[i])
        /\ DOMAIN cfg.opts = cap_keys(cfg)
        /\ \A w \in DOMAIN cfg.wr_ports :
              DOMAIN cfg.wr_ports[w].portopts = port_cap_keys(cfg, "wr", w)
        /\ \A r \in DOMAIN cfg.rd_ports :
              DOMAIN cfg.rd_ports[r].portopts = port_cap_keys(cfg, "rd", r)

(* A candidate after handle_geom_split that went through a port group, a   *)
(* clock, a read enable, a priority, a dims, a byte and a width capability *)
(* under options, of a RAM whose first clock capability conflicts with     *)
(* the option of its write group.                                          *)
C17_Witness ==
    /\ After("handle_geom_split")
    /\ \E c \in DOMAIN cfgs :
          LET cfg == cfgs[c] IN
          /\ { cfg.caps[i].what : i \in DOMAIN cfg.caps } =
                {"port", "clock", "rden", "wrprio", "dims", "byte", "width"}
          /\ DOMAIN cfg.opts = {"X", "Y", "Z"}
          /\ cfg.opts["X"] = "b"
          /\ \E w \in DOMAIN cfg.wr_ports : "PX" \in DOMAIN cfg.wr_ports[w].portopts
          /\ \E r \in DOMAIN cfg.rd_ports : "PY" \in DOMAIN cfg.rd_ports[r].portopts


(* The run is the ROM scenario. *)
rom_scenario ==
    mem = RomMem /\ \E c \in RomDimsCosts : lib = Library(<<RomRam(c)>>, NoOptions)

(* The candidate of the scenario: no replication, one emulation point. *)
rom_candidate(cfg) ==
    /\ cfg.ram_def = 1
    /\ cfg.repl_d = 1
    /\ cfg.repl_port = 1
    /\ cfg.score_emu = 1

(* C18: for the 8 x 4 ROM with one asynchronous read port, no write ports  *)
(* and all-ones contents and a library of one Distributed RAM (abits 3,    *)
(* dbits 4, one Ar port, init any) the pipeline ends with one hard         *)
(* candidate with repl_d = 1, repl_port = 1 and score_emu = 1, of cost     *)
(* dims cost + 2; it is the one mapped when that cost is below 32, the     *)
(* cost of soft logic, and the memory stays in soft logic otherwise.       *)
C18_RomScenario ==
    rom_scenario =>
        /\ pc \in {"select", "done"} =>
              /\ Len(cfgs) = 1
              /\ rom_candidate(cfgs[1])
              /\ cfgs[1].cost = RamOf(cfgs[1]).dims[1].val.cost + FACTOR_EMU * CostScale
              /\ logic_ok
              /\ logic_cost = 32 * CostScale
        /\ pc = "done" =>
              IF cfgs[1].cost < logic_cost
              THEN emitted = <<cfgs[1]>> /\ mem_removed
              ELSE emitted = << >> /\ ~mem_removed
        /\ pc # "failed"

(* The scenario mapped to the RAM. *)
C18_Witness ==
    /\ rom_scenario
    /\ pc = "done"
    /\ emitted # << >>
    /\ rom_candidate(emitted[1])

(* C18 as stated: in the scenario the hard candidate is the one mapped,    *)
(* whatever the dims cost of the RAM.                                      *)
C18_RomAlwaysHard ==
    (rom_scenario /\ pc = "done") =>
        /\ emitted # << >>
        /\ rom_candidate(emitted[1])
        /\ mem_removed


(* Write port p enables data bits i and j differently in some sub-word. *)
en_differs(p, i, j) ==
    \E sub \in 0..(Pow2(mem.wr_ports[p].wide_log2) - 1) :
        EnBit(mem.wr_ports[p], sub * mem.width + i)
            # EnBit(mem.wr_ports[p], sub * mem.width + j)

(* The position of source bit i in the swizzle of cfg, counted from 0. *)
swizzle_pos(cfg, i) ==
    (CHOOSE k \in DOMAIN cfg.swizzle : cfg.swizzle[k] = i) - 1

(* C19: byte_boundary[i] is true exactly when i = 0 or some write port's   *)
(* enable differs between data bits i and i - 1 in one of its              *)
(* 2^wide_log2 sub-words (the one sub-word of a non-wide port included),   *)
(* and so, after handle_geom, two source bits that some write port enables *)
(* differently never lie in the same effective_byte-aligned group of the   *)
(* swizzle.                                                                *)
C19_ByteBoundary ==
    pc = "prune_post_geom" =>
        /\ \A i \in 0..(mem.width - 1) :
              byte_boundary(i) <=>
                  (i = 0 \/ \E p \in DOMAIN mem.wr_ports : en_differs(p, i, i - 1))
        /\ \A c \in DOMAIN cfgs : \A i, j \in 0..(mem.width - 1) :
              (\E p \in DOMAIN mem.wr_ports : en_differs(p, i, j)) =>
                  swizzle_pos(cfgs[c], i) \div stored_effective_byte(cfgs[c])
                      # swizzle_pos(cfgs[c], j) \div stored_effective_byte(cfgs[c])


(* The configurations handle_geom evaluated for candidate c, in order. *)
geom_seen(c) == geom_one(prev_cfgs[c]).seen

(* The first configuration of least cost in a non-empty sequence. *)
first_cheapest(s) ==
    s[CHOOSE k \in DOMAIN s :
        /\ \A k2 \in DOMAIN s : s[k].cost <= s[k2].cost
        /\ \A k2 \in 1..(k - 1) : s[k2].cost > s[k].cost]

(* C20: for every candidate the geometry that handle_geom stores           *)
(* (base_width_log2, unit_width_log2, swizzle, hard_wide_mask, repl_d,     *)
(* score_mux, score_demux, cost) is the one of least cost among the        *)
(* configurations evaluated for it, a later configuration replacing the    *)
(* stored one exactly when its cost is strictly lower, by however little.  *)
C20_MinCostGeometry ==
    pc = "prune_post_geom" =>
        \A c \in DOMAIN cfgs :
            /\ geom_seen(c) # << >>
            /\ cfgs[c] = first_cheapest(geom_seen(c))


(* The kind of the port group that read port r of cfg is bound to. *)
rd_group_kind(cfg, r) == RamOf(cfg).ports[cfg.rd_ports[r].port_def].val.kind

(* C21: in every candidate no asynchronous source read port is bound to a  *)
(* port group of kind Sr or Srsw and no read port to a group of kind Sw; a *)
(* read port on an Ar or Arsw group has emu_sync exactly when the source   *)
(* port is synchronous, and one on an Sr or Srsw group never has emu_sync. *)
C21_ReadBinding ==
    \A c \in DOMAIN cfgs : \A r \in DOMAIN cfgs[c].rd_ports :
        LET knd  == rd_group_kind(cfgs[c], r)
            port == mem.rd_ports[r]
            pcfg == cfgs[c].rd_ports[r]
        IN  /\ knd # "Sw"
            /\ ~port.clk_enable => knd \notin {"Sr", "Srsw"}
            /\ knd \in {"Ar", "Arsw"} => (pcfg.emu_sync <=> port.clk_enable)
            /\ knd \in {"Sr", "Srsw"} => ~pcfg.emu_sync

(* A synchronous source read port bound, unshared, to an asynchronous      *)
(* group, beside a candidate that has it on a synchronous group.           *)
C21_Witness ==
    /\ After("handle_rd_ports")
    /\ \E c \in DOMAIN cfgs : \E r \in DOMAIN cfgs[c].rd_ports :
          /\ cfgs[c].rd_ports[r].wr_port = 0
          /\ rd_group_kind(cfgs[c], r) \in {"Ar", "Arsw"}
          /\ mem.rd_ports[r].clk_enable
          /\ cfgs[c].rd_ports[r].emu_sync
    /\ \E c \in DOMAIN cfgs : \E r \in DOMAIN cfgs[c].rd_ports :
          /\ cfgs[c].rd_ports[r].wr_port = 0
          /\ rd_group_kind(cfgs[c], r) \in {"Sr", "Srsw"}


(* The kind of the port group that write port w of cfg is bound to. *)
wr_group_kind(cfg, w) == RamOf(cfg).ports[cfg.wr_ports[w].port_def].val.kind

(* The kinds of the rden capabilities bound for a read port that shares    *)
(* write port w.                                                           *)
shared_rden(cfg, w) ==
    { cfg.caps[i].name :
        i \in { j \in DOMAIN cfg.caps :
                  /\ cfg.caps[j].what = "rden"
                  /\ cfg.caps[j].side = "wr"
                  /\ cfg.caps[j].pidx = w } }

(* The emu_en that goes with a shared rden capability of kind val. *)
shared_rden_ok(pcfg, val, w, r) ==
    CASE val = "WriteExcludes" -> <<w, r>> \in mem.wr_excludes_rd /\ ~pcfg.emu_en
      [] val = "WriteImplies"  -> pcfg.emu_en = (<<w, r>> \notin mem.wr_implies_rd)
      [] val = "None"          -> pcfg.emu_en = (mem.rd_ports[r].en # "1")
      [] OTHER                 -> ~pcfg.emu_en

(* C22: in every candidate a read port r paired with write port w has w on *)
(* a group of kind Arsw or Srsw, is the only read port paired with w, and  *)
(* has an address compatible with that of w; on Srsw it is synchronous     *)
(* with the clock and polarity of w, and was bound with one rden           *)
(* capability: WriteExcludes only if wr_excludes_rd(w, r), WriteImplies    *)
(* with emu_en = ~wr_implies_rd(w, r), None with emu_en = (en is not the   *)
(* constant 1), Any with emu_en false.                                     *)
C22_SharedBinding ==
    \A c \in DOMAIN cfgs : \A r \in DOMAIN cfgs[c].rd_ports :
        LET cfg == cfgs[c]
            w   == cfg.rd_ports[r].wr_port
        IN  w # 0 =>
              /\ wr_group_kind(cfg, w) \in {"Arsw", "Srsw"}
              /\ \A r2 \in DOMAIN cfg.rd_ports : cfg.rd_ports[r2].wr_port = w => r2 = r
              /\ addr_compatible(w, r)
              /\ wr_group_kind(cfg, w) = "Srsw" =>
                    /\ mem.rd_ports[r].clk_enable
                    /\ mem.rd_ports[r].clk = mem.wr_ports[w].clk
                    /\ mem.rd_ports[r].clk_polarity = mem.wr_ports[w].clk_polarity
                    /\ Cardinality(shared_rden(cfg, w)) = 1
                    /\ \A val \in shared_rden(cfg, w) :
                          shared_rden_ok(cfg.rd_ports[r], val, w, r)

(* A read port that shares an Srsw port through WriteExcludes, of a memory *)
(* with a second read port that could have shared it too.                  *)
C22_Witness ==
    /\ After("handle_rd_ports")
    /\ Len(mem.rd_ports) = 2
    /\ \E c \in DOMAIN cfgs :
          /\ cfgs[c].rd_ports[1].wr_port = 1
          /\ wr_group_kind(cfgs[c], 1) = "Srsw"
          /\ shared_rden(cfgs[c], 1) = {"WriteExcludes"}
          /\ addr_compatible(1, 2)


(* The candidates among the first n of cs that have no shared read port. *)
unshared_upto(cs, n) == { i \in 1..n : ~has_shared_rd(cs[i]) }

(* C23: a candidate has emu_read_first only if emulate_read_first_ok holds *)
(* for the memory and none of its read ports is shared with a write port;  *)
(* when emulate_read_first_ok holds, the fork at the head of handle_trans  *)
(* turns every candidate without a shared read port into two, itself and   *)
(* a copy that differs in emu_read_first only, and keeps a candidate with  *)
(* a shared read port once and unchanged; otherwise it keeps the list.     *)
C23_ReadFirstFork ==
    /\ \A c \in DOMAIN cfgs :
          cfgs[c].emu_read_first =>
              emulate_read_first_ok(mem) /\ ~has_shared_rd(cfgs[c])
    /\ pc = "handle_trans" =>
          LET f == read_first_fork(cfgs)
              at(i) == i + Cardinality(unshared_upto(cfgs, i - 1))
          IN  IF emulate_read_first_ok(mem)
              THEN /\ Len(f) = Len(cfgs) + Cardinality(unshared_upto(cfgs, Len(cfgs)))
                   /\ \A i \in DOMAIN cfgs :
                         /\ f[at(i)] = cfgs[i]
                         /\ ~has_shared_rd(cfgs[i]) =>
                               /\ f[at(i) + 1] = [cfgs[i] EXCEPT !.emu_read_first = TRUE]
                               /\ f[at(i) + 1] # cfgs[i]
              ELSE f = cfgs
    /\ pc = "handle_priority" =>
          \A c \in DOMAIN prev_cfgs :
              (emulate_read_first_ok(mem) /\ ~has_shared_rd(prev_cfgs[c])) =>
                  \E d \in DOMAIN cfgs :
                      /\ cfgs[d].emu_read_first
                      /\ derived_from([cfgs[d] EXCEPT !.emu_read_first = FALSE],
                                      [prev_cfgs[c] EXCEPT !.rd_ports =
                                          [r \in DOMAIN @ |->
                                              [@[r] EXCEPT !.emu_trans =
                                                  cfgs[d].rd_ports[r].emu_trans]]])

(* After handle_trans, with emulate_read_first_ok: a candidate with        *)
(* emu_read_first beside one with a shared read port, which was not        *)
(* forked.                                                                 *)
C23_Witness ==
    /\ pc = "handle_priority"
    /\ emulate_read_first_ok(mem)
    /\ \E c \in DOMAIN cfgs : cfgs[c].emu_read_first
    /\ \E c \in DOMAIN cfgs : has_shared_rd(cfgs[c])


(* The reset emulation flags of a read port are all clear. *)
no_rst_emu(pcfg) ==
    ~pcfg.emu_init /\ ~pcfg.emu_arst /\ ~pcfg.emu_srst /\ ~pcfg.emu_srst_en_prio

(* C25: after handle_rd_srst the emulation flags of every read port of     *)
(* every candidate are consistent: emu_sync excludes emu_en and the four   *)
(* reset flags, emu_en excludes the four reset flags, and emu_srst_en_prio *)
(* excludes emu_srst.                                                      *)
C25_EmuFlags ==
    After("handle_rd_srst") =>
        \A c \in DOMAIN cfgs : \A r \in DOMAIN cfgs[c].rd_ports :
            LET pcfg == cfgs[c].rd_ports[r]
            IN  /\ pcfg.emu_sync => (~pcfg.emu_en /\ no_rst_emu(pcfg))
                /\ pcfg.emu_en => no_rst_emu(pcfg)
                /\ pcfg.emu_srst_en_prio => ~pcfg.emu_srst

(* After handle_rd_srst: a port with a reset in use whose handler skipped  *)
(* it because of emu_sync or emu_en.                                       *)
C25_Witness ==
    /\ pc = "score_emu_ports"
    /\ \E c \in DOMAIN cfgs : \E r \in DOMAIN cfgs[c].rd_ports :
          /\ cfgs[c].rd_ports[r].emu_sync \/ cfgs[c].rd_ports[r].emu_en
          /\ \E rkind \in {"Init", "Async", "Sync"} :
                rst_relevant(mem.rd_ports[r], rkind)


(* C26: after handle_rd_ports the pairing of read and write ports of every *)
(* candidate is symmetric and one-to-one: wr_ports[w].rd_port = r exactly  *)
(* when rd_ports[r].wr_port = w, no two write ports share a read port and  *)
(* no two read ports a write port, and paired ports have one port_def.     *)
C26_PairingSymmetric ==
    After("handle_rd_ports") =>
        \A c \in DOMAIN cfgs :
            LET cfg == cfgs[c]
                W == DOMAIN cfg.wr_ports
                R == DOMAIN cfg.rd_ports
            IN  /\ \A w \in W : cfg.wr_ports[w].rd_port \in R \cup {0}
                /\ \A r \in R : cfg.rd_ports[r].wr_port \in W \cup {0}
                /\ \A w \in W : \A r \in R :
                      (cfg.wr_ports[w].rd_port = r) <=> (cfg.rd_ports[r].wr_port = w)
                /\ \A w1 \in W : \A w2 \in W :
                      (w1 # w2 /\ cfg.wr_ports[w1].rd_port # 0) =>
                          cfg.wr_ports[w1].rd_port # cfg.wr_ports[w2].rd_port
                /\ \A r1 \in R : \A r2 \in R :
                      (r1 # r2 /\ cfg.rd_ports[r1].wr_port # 0) =>
                          cfg.rd_ports[r1].wr_port # cfg.rd_ports[r2].wr_port
                /\ \A w \in W : \A r \in R :
                      cfg.wr_ports[w].rd_port = r =>
                          cfg.wr_ports[w].port_def = cfg.rd_ports[r].port_def

(* After handle_rd_ports: two read ports that can both share the one write *)
(* port; one candidate pairs the first, another the second.                *)
C26_Witness ==
    /\ pc = "handle_trans"
    /\ Len(mem.rd_ports) = 2
    /\ \E c \in DOMAIN cfgs : cfgs[c].rd_ports[1].wr_port # 0
    /\ \E c \in DOMAIN cfgs : cfgs[c].rd_ports[2].wr_port # 0


(* C27: for every library the parser accepts (library_ok: each dbits       *)
(* positive and at least twice the previous one, no more dbits than abits  *)
(* allows, validate_widths accepting each byte), the assertion unit_width  *)
(* % effective_byte = 0 of handle_geom holds for every candidate and every *)
(* base width the search visits.                                           *)
C27_ByteDividesUnit ==
    /\ pc = "handle_geom" =>
          (library_ok(lib) /\ \A c \in DOMAIN cfgs : ~geom_one(cfgs[c]).assert_failed)
    /\ error # "log_assert(geom)"

(* The hard wide bits the search of candidate cfg committed at one base    *)
(* width, in the order it committed them.                                  *)
hw_bits_added(cfg, base) ==
    SelectSeq(geom_one(cfg).added, LAMBDA a : a.base = base)

(* C28: the geometry search of every candidate terminates: at each base    *)
(* width the hard-wide-bit loop commits at most max_wide_log2 bits, each   *)
(* an index in 0..max_wide_log2-1 and none twice, and when the search runs *)
(* to its end at least one configuration was recorded, so that             *)
(* log_assert(got_config) holds.                                           *)
C28_SearchTerminates ==
    pc = "handle_geom" =>
        \A c \in DOMAIN cfgs :
            LET g == geom_ctx(cfgs[c])
                r == geom_one(cfgs[c])
            IN  /\ \A base \in 0..(g.nd - 1) :
                      LET b == hw_bits_added(cfgs[c], base)
                      IN  /\ Len(b) <= g.max_wide_log2
                          /\ \A i \in DOMAIN b : b[i].bit \in 0..(g.max_wide_log2 - 1)
                          /\ \A i \in DOMAIN b : \A j \in DOMAIN b :
                                i # j => b[i].bit # b[j].bit
                /\ \A i \in DOMAIN r.added : r.added[i].base \in g.start_base..(g.nd - 1)
                /\ ~r.assert_failed => (r.got_config /\ r.seen # << >>)

(* A search that commits two hard wide bits at one base width and records  *)
(* a configuration, and the pass goes on.                                  *)
C28_Witness ==
    /\ pc = "prune_post_geom"
    /\ \E c \in DOMAIN prev_cfgs :
          /\ geom_one(prev_cfgs[c]).got_config
          /\ \E base \in 0..2 : Len(hw_bits_added(prev_cfgs[c], base)) >= 2


(* The slots <<rp, pgi, pi>> of the emitted netlist n that carry a port. *)
used_slots(n) ==
    { s \in UNION { UNION { { <<rp, pgi, pi>> : pi \in DOMAIN n.slot[rp][pgi] } :
                            pgi \in DOMAIN n.slot[rp] } : rp \in DOMAIN n.slot } :
        n.slot[s[1]][s[2]][s[3]].USED }

slot_at(n, s) == n.slot[s[1]][s[2]][s[3]]

(* C24: emit creates exactly repl_port * repl_d cells, one per replica and *)
(* data tile; every write port has one slot, in its port group, in every   *)
(* replica; every read port has exactly one slot, in its port group, in a  *)
(* replica below repl_port, a shared read port the slot of its write port  *)
(* in replica 0; no port group of a replica gets more ports than it has    *)
(* aliases, and exactly the aliases left without a port get USED = false.  *)
C24_EmitPorts ==
    (pc = "done" /\ cells # << >>) =>
        LET cfg == emitted[1]
            n == cells[1]
            U == used_slots(n)
            replicas == 0..(cfg.repl_port - 1)
        IN  /\ n.cell = replicas \X (0..(cfg.repl_d - 1))
            /\ Cardinality(n.cell) = cfg.repl_port * cfg.repl_d
            /\ ~n.oob
            /\ DOMAIN n.slot = replicas
            /\ \A w \in DOMAIN cfg.wr_ports : \A rp \in replicas :
                  LET at == { s \in U : s[1] = rp /\ slot_at(n, s).wpidx = w }
                  IN  /\ Cardinality(at) = 1
                      /\ \A s \in at : s[2] = cfg.wr_ports[w].port_def
            /\ \A r \in DOMAIN cfg.rd_ports :
                  LET at == { s \in U : slot_at(n, s).rpidx = r }
                  IN  /\ Cardinality(at) = 1
                      /\ \A s \in at :
                            /\ s[1] \in replicas
                            /\ s[2] = cfg.rd_ports[r].port_def
                            /\ cfg.rd_ports[r].wr_port # 0 =>
                                  /\ s[1] = 0
                                  /\ slot_at(n, s).wpidx = cfg.rd_ports[r].wr_port
                            /\ cfg.rd_ports[r].wr_port = 0 => slot_at(n, s).wpidx = 0
            /\ \A rp \in replicas : \A pgi \in DOMAIN RamOf(cfg).ports :
                  /\ Len(n.ports[rp][pgi]) <= Len(RamOf(cfg).ports[pgi].val.names)
                  /\ DOMAIN n.slot[rp][pgi] = 1..Len(RamOf(cfg).ports[pgi].val.names)
                  /\ \A pi \in DOMAIN n.slot[rp][pgi] :
                        n.slot[rp][pgi][pi].USED <=> pi <= Len(n.ports[rp][pgi])

(* An emitted candidate with two replicas of two data tiles, a read port   *)
(* on the second replica and an alias without a port.                      *)
C24_Witness ==
    /\ pc = "done" /\ cells # << >>
    /\ emitted[1].repl_port = 2 /\ emitted[1].repl_d = 2
    /\ \E s \in used_slots(cells[1]) : s[1] = 1 /\ slot_at(cells[1], s).rpidx # 0
    /\ \E pgi \in DOMAIN cells[1].slot[1] : \E pi \in DOMAIN cells[1].slot[1][pgi] :
          ~cells[1].slot[1][pgi][pi].USED


(* C29: in emit, the slot shared by write port w and read port r takes the *)
(* read side from the source read port r: a read port wider than its write *)
(* port gives rd_wide_log2 = rd_ports[r].wide_log2 > wr_ports[w].wide_log2 *)
(* and makes the combined wide_log2 the one of the read port.              *)
C29_SharedReadWide ==
    (pc = "done" /\ cells # << >>) =>
        \A s \in used_slots(cells[1]) :
            LET sl == slot_at(cells[1], s)
            IN  (sl.wpidx # 0 /\ sl.rpidx # 0) =>
                    /\ sl.wide_log2 = Max(mem.wr_ports[sl.wpidx].wide_log2,
                                          mem.rd_ports[sl.rpidx].wide_log2)
                    /\ mem.rd_ports[sl.rpidx].wide_log2 > mem.wr_ports[sl.wpidx].wide_log2 =>
                          /\ sl.rd_wide_log2 = mem.rd_ports[sl.rpidx].wide_log2
                          /\ sl.rd_wide_log2 > mem.wr_ports[sl.wpidx].wide_log2

(* C30: in emit, a slot whose chosen width definition is tied has one      *)
(* width for both sides: hw_rd_wide_log2 = hw_wr_wide_log2, so that the    *)
(* RD_DATA wire of a read port is as wide as PORT_<name>_WIDTH says.       *)
C30_TiedWidths ==
    (pc = "done" /\ cells # << >>) =>
        \A s \in used_slots(cells[1]) :
            LET sl == slot_at(cells[1], s)
            IN  sl.tied =>
                    /\ sl.hw_rd_wide_log2 = sl.hw_wr_wide_log2
                    /\ (sl.rpidx # 0 /\ sl.WIDTH # 0) => sl.RD_DATA = sl.WIDTH

====
